---- MODULE Spec2Model ----
\* Compile-time expression evaluator of nvc (src/eval.c): the vcode interpreter
\* eval_vcode, its per-op handlers, the bump-allocated evaluation heap, the
\* context chain and the public entry eval().
\*
\* Integer widths.  TLC's integers are 32 bits wide, so the C types are
\* modelled with narrower two's-complement words that keep their order:
\* int64_t and size_t have IntBits bits, int has CIntBits < IntBits bits, and
\* EVAL_HEAP < 2^(CIntBits-1)*SIZEOF_VALUE < 2^IntBits.
\*
\* assert() is taken as compiled in (no NDEBUG): a failed assert aborts.
EXTENDS Integers, Sequences, FiniteSets, TLC

\* ---------------------------------------------------------------- bounds
IntBits == 14
CIntBits == 10
MaxEvals == 2
MaxVisits == 3

\* ------------------------------------------------------ program constants
MAX_DIMS == 4
EVAL_HEAP == 4096
SIZEOF_VALUE == 16
SIZEOF_UARRAY == 112
HeapBase == 4096
NULL == 0
NO_RESULT == -1

SEVERITY_NOTE == 0
SEVERITY_WARNING == 1
SEVERITY_ERROR == 2
SEVERITY_FAILURE == 3

RANGE_TO == 0
RANGE_DOWNTO == 1

\* ------------------------------------------------------------ C integers
Pow2(n) == 2^n

IntMod == Pow2(IntBits)

INT64_MAX == Pow2(IntBits - 1) - 1

INT64_MIN == -Pow2(IntBits - 1)

INT_MAX == Pow2(CIntBits - 1) - 1

INT_MIN == -Pow2(CIntBits - 1)

\* conversion to int64_t: two's-complement wrap
Wrap64(x) == ((x + Pow2(IntBits - 1)) % IntMod) - Pow2(IntBits - 1)

\* conversion to int: keeps the low CIntBits bits
ToInt(x) == ((x + Pow2(CIntBits - 1)) % Pow2(CIntBits)) - Pow2(CIntBits - 1)

\* conversion to size_t
ToSize(x) == x % IntMod

\* C's / and %: truncation toward zero
CDiv(a, b) == IF (a >= 0) = (b >= 0) THEN (IF a >= 0 THEN a ELSE -a) \div (IF b >= 0 THEN b ELSE -b) ELSE -((IF a >= 0 THEN a ELSE -a) \div (IF b >= 0 THEN b ELSE -b))

CRem(a, b) == a - CDiv(a, b) * b

Abs(x) == IF x >= 0 THEN x ELSE -x

Max(a, b) == IF a >= b THEN a ELSE b

\* ----------------------------------------------------------------- values
\* value_t: a kind tag and one payload word.  xcalloc'ed slots are Invalid.
IntV(n) == [kind |-> "Integer", v |-> n]

RealV(x) == [kind |-> "Real", v |-> x]

PtrV(a) == [kind |-> "Pointer", v |-> a]

UArrV(a) == [kind |-> "UArray", v |-> a]

CArrV(a) == [kind |-> "CArray", v |-> a]

Invalid == [kind |-> "Invalid", v |-> 0]

\* eval_flags_t
AllFlags == {"fold", "fcall", "bounds", "warn", "report", "verbose", "lower"}


\* ------------------------------------------------------------- vcode (IR)
\* The IR is consumed through the vcode query API.  An op is a record of
\* everything the accessors can return for it: vcode_get_op, vcode_get_result,
\* vcode_get_arg/vcode_count_args, vcode_get_value/vcode_get_real,
\* vcode_get_target, vcode_get_address, vcode_get_type, vcode_get_cmp /
\* vcode_get_subkind, vcode_get_dim, vcode_get_func and vcode_get_bookmark.
NoType == [kind |-> "none", low |-> 0, high |-> 0, size |-> 0]

IntType(lo, hi) == [kind |-> "int", low |-> lo, high |-> hi, size |-> 0]

RealType == [kind |-> "real", low |-> 0, high |-> 0, size |-> 0]

CArrayType(n) == [kind |-> "carray", low |-> 0, high |-> 0, size |-> n]

UArrayType == [kind |-> "uarray", low |-> 0, high |-> 0, size |-> 0]

OffsetType == [kind |-> "offset", low |-> 0, high |-> 0, size |-> 0]

PointerType == [kind |-> "pointer", low |-> 0, high |-> 0, size |-> 0]

\* vcode_var_t: vcode_var_context, vcode_var_index, vcode_var_extern
Var(d, i) == [depth |-> d, index |-> i, extern |-> FALSE]

ExternVar(d, i) == [depth |-> d, index |-> i, extern |-> TRUE]

NoOp == [op |-> "comment", res |-> NO_RESULT, args |-> <<>>, val |-> 0, tgt |-> <<>>, var |-> Var(0, 0), ty |-> NoType, sub |-> "none", dim |-> 0, func |-> "none", bm |-> "none"]

OpConst(r, n) == [NoOp EXCEPT !.op = "const", !.res = r, !.val = n]

OpConstReal(r, x) == [NoOp EXCEPT !.op = "const_real", !.res = r, !.val = x]

OpReturn(r) == [NoOp EXCEPT !.op = "return", !.args = <<r>>]

OpReturnVoid == [NoOp EXCEPT !.op = "return"]

OpBin(name, r, a, b) == [NoOp EXCEPT !.op = name, !.res = r, !.args = <<a, b>>]

OpCmp(k, r, a, b) == [NoOp EXCEPT !.op = "cmp", !.sub = k, !.res = r, !.args = <<a, b>>]

OpFcall(r, f, as) == [NoOp EXCEPT !.op = "fcall", !.res = r, !.func = f, !.args = as]

OpBounds(a, lo, hi, k) == [NoOp EXCEPT !.op = "bounds", !.args = <<a>>, !.ty = IntType(lo, hi), !.sub = k]

\* args = <<value, low, high>>
OpDynamicBounds(a, lo, hi) == [NoOp EXCEPT !.op = "dynamic_bounds", !.args = <<a, lo, hi>>]

\* as = <<low, high>> with the range [lo, hi] of the op's type, or
\* <<low, high, min, max>>
OpIndexCheck(as, lo, hi) == [NoOp EXCEPT !.op = "index_check", !.args = as, !.ty = IntType(lo, hi)]

OpConstArray(r, as) == [NoOp EXCEPT !.op = "const_array", !.res = r, !.args = as]

OpWrap(r, as) == [NoOp EXCEPT !.op = "wrap", !.res = r, !.args = as]

OpUnwrap(r, a) == [NoOp EXCEPT !.op = "unwrap", !.res = r, !.args = <<a>>]

OpAlloca(r, as) == [NoOp EXCEPT !.op = "alloca", !.res = r, !.args = as]

OpJump(t) == [NoOp EXCEPT !.op = "jump", !.tgt = <<t>>]

\* target 0 is taken when the test is non-zero, target 1 otherwise
OpCond(a, t, f) == [NoOp EXCEPT !.op = "cond", !.args = <<a>>, !.tgt = <<t, f>>]

\* args = <<test, choice1, ...>>, tgt = <<default, target1, ...>>
OpCase(as, ts) == [NoOp EXCEPT !.op = "case", !.args = as, !.tgt = ts]

OpLoad(r, x) == [NoOp EXCEPT !.op = "load", !.res = r, !.var = x]

OpStore(a, x) == [NoOp EXCEPT !.op = "store", !.args = <<a>>, !.var = x]

OpIndex(r, x) == [NoOp EXCEPT !.op = "index", !.res = r, !.var = x]

OpLoadIndirect(r, a) == [NoOp EXCEPT !.op = "load_indirect", !.res = r, !.args = <<a>>]

\* args = <<value, pointer>>
OpStoreIndirect(a, p) == [NoOp EXCEPT !.op = "store_indirect", !.args = <<a, p>>]

OpMemcmp(r, a, b, n) == [NoOp EXCEPT !.op = "memcmp", !.res = r, !.args = <<a, b, n>>]

\* uarray_len, uarray_left, uarray_right, uarray_dir of dimension d
OpUarray(k, r, a, d) == [NoOp EXCEPT !.op = k, !.res = r, !.args = <<a>>, !.dim = d]

\* args = <<test, severity, text, length>>
OpAssert(t, sv, x, n) == [NoOp EXCEPT !.op = "assert", !.args = <<t, sv, x, n>>, !.bm = "stmt"]

\* args = <<severity, text, length>>
OpReport(sv, x, n) == [NoOp EXCEPT !.op = "report", !.args = <<sv, x, n>>, !.bm = "stmt"]

\* the result is the argument converted to type t
OpCast(r, a, t) == [NoOp EXCEPT !.op = "cast", !.res = r, !.args = <<a>>, !.ty = t]

\* args = <<destination, source, count>>
OpCopy(d, x, n) == [NoOp EXCEPT !.op = "copy", !.args = <<d, x, n>>]

\* the result is the text of the argument; sub is type_kind of the base type
\* of the tree the op's bookmark refers to
OpImage(r, a, k) == [NoOp EXCEPT !.op = "image", !.res = r, !.args = <<a>>, !.sub = k, !.bm = "expr"]

\* an opcode eval_vcode has no case for
OpOther == [NoOp EXCEPT !.op = "other"]

\* a vcode unit: vcode_unit_kind, vcode_unit_depth, vcode_unit_context,
\* vcode_count_regs, vcode_count_vars/vcode_var_type and the blocks' ops
Unit(k, d, c, n, vs, bs) == [kind |-> k, depth |-> d, context |-> c, nregs |-> n, vars |-> vs, blocks |-> bs]

NoUnit == Unit("none", 0, "none", 0, <<>>, <<>>)


\* ------------------------------------------------------------ syntax trees
\* What eval and eval_possible read of a tree: tree_kind, the TREE_F_IMPURE
\* flag of the callee, type_is_scalar of its type, tree_kind of the
\* declaration a T_REF refers to, and its parameters (for a T_CONST_DECL
\* reference, params[1] is the constant's initializer).
Tree(k, imp, sc, d, ps) == [kind |-> k, impure |-> imp, scalar |-> sc, decl |-> d, params |-> ps]

TLiteral == Tree("literal", FALSE, TRUE, "none", <<>>)

TAggregate == Tree("aggregate", FALSE, FALSE, "none", <<>>)

TCall(imp, sc, ps) == Tree("fcall", imp, sc, "none", ps)

TRef(d, ps) == Tree("ref", FALSE, TRUE, d, ps)

TConv(t) == Tree("type_conv", FALSE, TRUE, "none", <<t>>)

\* a call site offered to eval: its tree, type_is_scalar / type_is_enum of its
\* type, whether lower_thunk produces a unit for it, and the parameters
\* (fam, sub, a, b) that determine the thunk lower_thunk produces
Node(f, s, x, y, en) == [fam |-> f, sub |-> s, a |-> x, b |-> y, scalar |-> TRUE, enum |-> en, lowers |-> TRUE, tree |-> TCall(FALSE, TRUE, <<TLiteral>>)]

ArithOps == {"add", "sub", "mul", "div", "mod", "rem"}

CmpKinds == {"eq", "neq", "lt", "leq", "gt", "geq"}

BoundsKinds == {"array_to", "array_downto", "enum"}

ArithNodes == {Node("arith", o, x, y, FALSE) : o \in ArithOps, x \in {7, -7, INT64_MIN}, y \in {0, 2, -1}}

\* ... and a memcmp of two arrays of one cell, a and b
CmpNodes == {Node("cmp", k, x, y, TRUE) : k \in CmpKinds, x \in {0, INT_MAX + 1}, y \in {0, 1}}
  \cup {Node("memcmp", "cells", x, y, TRUE) : x \in {0, 2 * (INT_MAX + 1)}, y \in {0, 1}}

\* b is the block of the thunk that holds the call; a call of dup copies
\* the first a elements of an array of two into its local array, which it
\* addresses with the op named by sub
CallNodes == {Node("call", f, x, 0, FALSE) : f \in {"add1", "add4", "nosuch", "lost", "getk", "chk"}, x \in {2, 5}}
  \cup {Node("call", "log2", x, 0, FALSE) : x \in {-3, 1, 2, 3, 5, 8, 11}} \cup {Node("call", "log2", 5, 1, FALSE)}
  \cup {Node("call", "case1", x, 0, FALSE) : x \in {-3, 1, 2, 7}}
  \cup {Node("call", f, x, 0, FALSE) : f \in {"setk", "getg", "geti", "chke", "mark"}, x \in {2, 5}}
  \cup {Node("call", "useb", x, 0, FALSE) : x \in {1, 2, 3}}
  \cup {Node("copy", k, x, 0, FALSE) : k \in {"index", "load"}, x \in {0, 1, 2}}

\* a case statement over a 64-bit type with the choices 1 and 2: a is the
\* value tested
CaseNodes == {Node("case", "choice", x, 0, FALSE) : x \in {1, 2, 7, 2 * (INT_MAX + 1) + 1, -2 * (INT_MAX + 1) + 2}}

\* ... a dynamic bounds check of a in 0 .. b, and an index check of the
\* range a .. b against 0 .. 7 taken from the op's type or from registers
BoundsNodes == {Node("bounds", k, x, y, FALSE) : k \in BoundsKinds, x \in {3, 9}, y \in {7, -1}}
  \cup {Node("dynamic", "bounds", x, y, FALSE) : x \in {3, 9}, y \in {7, -1}}
  \cup {Node("index", k, x, y, FALSE) : k \in {"type", "regs"}, x \in {-1, 2}, y \in {1, 5, 9}}

SpinNodes == {Node("spin", k, 0, 0, FALSE) : k \in {"jump", "cond", "case"}}

\* ... and a call of flip after an alloca of b cells, which leaves room for
\* the variable of flip or not
AllocNodes == {Node("alloc", "alloca", x, y, FALSE) : x \in {1, 2}, y \in {-1, 0, 1, 255, 300}}
  \cup {Node("full", "flip", 0, y, FALSE) : y \in {1, 250, 254}}

PtrNodes == {Node("ptradd", "add", 0, y, FALSE) : y \in {-1, 0, 1, 2, 300}}

FlipNodes == {Node("flip", k, x, y, TRUE) : k \in {"plain", "alloca"}, x \in {0, 1}, y \in {-8, -1, 1}}

\* the trees of calls offered to eval: parameters that are literals,
\* aggregates, conversions, references and calls
EntryTrees == {TCall(imp, TRUE, <<TLiteral>>) : imp \in BOOLEAN} \cup {TCall(FALSE, TRUE, <<TAggregate>>)}
  \cup {TCall(FALSE, TRUE, <<TLiteral, p>>) : p \in {TAggregate, TConv(TLiteral), TConv(TAggregate), TConv(TCall(FALSE, TRUE, <<TLiteral>>)),
                                                    TRef("unit_decl", <<>>), TRef("enum_lit", <<>>), TRef("signal_decl", <<>>),
                                                    TRef("const_decl", <<TLiteral>>), TRef("const_decl", <<TAggregate>>), TRef("const_decl", <<TCall(FALSE, TRUE, <<TLiteral>>)>>)}}
  \cup {TCall(FALSE, TRUE, <<TCall(imp, sc, <<p>>)>>) : imp \in BOOLEAN, sc \in BOOLEAN, p \in {TLiteral, TAggregate}}

EntryNodes == {[Node("real", "none", 62, 0, FALSE) EXCEPT !.scalar = sc, !.lowers = lw, !.tree = t] : sc \in BOOLEAN, lw \in BOOLEAN, t \in {TCall(FALSE, TRUE, <<TLiteral>>), TCall(FALSE, TRUE, <<TAggregate>>)}}
  \cup {[Node("real", "none", 62, 0, FALSE) EXCEPT !.tree = t] : t \in EntryTrees}

\* assert / report statements: a is the test, b the severity
MsgNodes == {Node("msg", k, x, y, FALSE) : k \in {"assert", "report"}, x \in {0, 1}, y \in {SEVERITY_NOTE, SEVERITY_WARNING, SEVERITY_ERROR, SEVERITY_FAILURE}}

\* arrays: a one-dimensional array (a to b) or (a downto b) with its four
\* attributes read, and an array of a dimensions wrapped after an alloca of
\* b cells
ArrayNodes == {Node("dim", d, x, y, FALSE) : d \in {"to", "downto"}, x \in {-2, 3, INT64_MAX}, y \in {-2, 3, INT64_MAX}}
  \cup {Node("wrap", "dims", x, y, FALSE) : x \in 1..(MAX_DIMS + 1), y \in {1, 250}}

\* a conversion of the value named by sub (the integer -7, the reals 2.50,
\* -2.50 and 9000.00, which lies beyond INT64_MAX, a pointer, an array
\* descriptor, a register no op has written) to the type CastType(a)
CastSources == {"int", "real", "realneg", "realbig", "pointer", "uarray", "unwritten"}

CastNodes == {Node("cast", k, t, 0, FALSE) : k \in CastSources, t \in 0..2} \cup {Node("cast", "int", 3, 0, FALSE)}

CastType(t) == CASE t = 0 -> IntType(INT64_MIN, INT64_MAX) [] t = 1 -> OffsetType [] t = 2 -> RealType [] t = 3 -> PointerType

\* the ops that leave the source of the conversion in register 0
CastSource(k) == CASE k = "int" -> <<OpConst(0, -7)>>
  [] k = "real" -> <<OpConstReal(0, 250)>>
  [] k = "realneg" -> <<OpConstReal(0, -250)>>
  [] k = "realbig" -> <<OpConstReal(0, 900000)>>
  [] k = "pointer" -> <<OpConst(5, 1), OpConstArray(0, <<5>>)>>
  [] k = "uarray" -> <<OpConst(5, 1), OpConst(6, RANGE_TO), OpConstArray(7, <<5>>), OpWrap(0, <<7, 5, 5, 6>>)>>
  [] k = "unwritten" -> <<>>

\* thunks with variables of their own: an integer, a real and an
\* unconstrained array, of which register a is returned, or a constrained
\* array of two elements
\* ... and thunks that load, store or index a variable of their own that
\* is marked extern
VarNodes == {Node("vars", "scalars", x, 0, FALSE) : x \in {0, 1}} \cup {Node("vars", "carray", 0, 0, FALSE)}
  \cup {Node("extern", k, 5, 0, FALSE) : k \in {"load", "store", "index"}}

\* T'image(a) for a type of the kind named by sub (for an enumeration type,
\* a is the position of the literal); of its result the length is taken
\* when b = 0, the left bound when b = 1
ImageNodes == {Node("image", "integer", x, y, FALSE) : x \in {5, -40}, y \in {0, 1}}
  \cup {Node("image", "enum", x, 0, FALSE) : x \in {0, 1}}
  \cup {Node("image", "real", x, 0, FALSE) : x \in {250, -250, 300}}
  \cup {Node("image", k, 1, 0, FALSE) : k \in {"physical", "access"}}

ResultNodes == {Node("result", k, 1, 0, en) : k \in {"int", "pointer", "none", "fall"}, en \in BOOLEAN}

Nodes == ArithNodes \cup CmpNodes \cup CallNodes \cup BoundsNodes \cup SpinNodes \cup AllocNodes \cup PtrNodes \cup FlipNodes \cup EntryNodes \cup ResultNodes \cup MsgNodes \cup ArrayNodes \cup CaseNodes \cup CastNodes \cup VarNodes \cup ImageNodes

\* the call sites offered to eval after the first call: those whose outcome
\* can depend on what an earlier call left behind (the error counter, the
\* IR selection, the units loaded)
LaterNodes == {n \in EntryNodes : n.tree.params \in {<<TLiteral>>, <<TAggregate>>}} \cup {n \in BoundsNodes : n.fam = "bounds" /\ n.a = 9} \cup {n \in CallNodes : n.sub \in {"add4", "chk"}}

FlagSets == {{}, {"fcall"}, {"fcall", "fold"}, {"fcall", "bounds"}, {"fcall", "warn"}, {"fcall", "verbose"}, {"fcall", "bounds", "warn", "report"}}


\* ------------------------------------------------- the lowering collaborator
\* lower_thunk(fcall): the thunk unit of a call site (NoUnit when it declines).
ThunkBlocks(n) == CASE n.fam = "arith" -> << <<OpConst(0, n.a), OpConst(1, n.b), OpBin(n.sub, 2, 0, 1), OpReturn(2)>> >>
  [] n.fam = "cmp" -> << <<OpConst(0, n.a), OpConst(1, n.b), OpCmp(n.sub, 2, 0, 1), OpReturn(2)>> >>
  [] n.fam = "call" /\ n.b = 0 -> << <<OpConst(0, n.a), OpFcall(1, n.sub, <<0>>), OpReturn(1)>> >>
  [] n.fam = "call" /\ n.b = 1 -> << <<OpConst(0, n.a), OpJump(1)>>, <<OpFcall(1, n.sub, <<0>>), OpReturn(1)>> >>
  [] n.fam = "bounds" -> << <<OpConst(0, n.a), OpBounds(0, 0, n.b, n.sub), OpReturn(0)>> >>
  [] n.fam = "spin" /\ n.sub = "jump" -> << <<OpJump(1)>>, <<NoOp, OpJump(1)>> >>
  [] n.fam = "spin" /\ n.sub = "cond" -> << <<OpConst(0, 1), OpCond(0, 0, 1)>>, <<OpReturn(0)>> >>
  [] n.fam = "spin" /\ n.sub = "case" -> << <<OpConst(0, 1), OpConst(1, 1), OpCase(<<0, 1>>, <<1, 0>>)>>, <<OpReturn(0)>> >>
  [] n.fam = "alloc" -> << <<OpConst(0, 10), OpConst(1, 20), OpConstArray(2, IF n.a = 1 THEN <<0>> ELSE <<0, 0>>), OpConst(3, n.b), OpAlloca(4, <<3>>), OpConstArray(5, <<1>>), OpLoadIndirect(6, 2), OpReturn(6)>> >>
  [] n.fam = "dynamic" -> << <<OpConst(0, n.a), OpConst(1, 0), OpConst(2, n.b), OpDynamicBounds(0, 1, 2), OpReturn(0)>> >>
  [] n.fam = "index" -> << <<OpConst(0, n.a), OpConst(1, n.b), OpConst(2, 0), OpConst(3, 7), OpIndexCheck(IF n.sub = "type" THEN <<0, 1>> ELSE <<0, 1, 2, 3>>, 0, 7), OpReturn(0)>> >>
  [] n.fam = "memcmp" -> << <<OpConst(0, n.a), OpConst(1, n.b), OpConstArray(2, <<0>>), OpConstArray(3, <<1>>), OpConst(4, 1), OpMemcmp(5, 2, 3, 4), OpReturn(5)>> >>
  [] n.fam = "full" -> << <<OpConst(0, 1), OpConst(1, 0), OpConst(8, n.b), OpAlloca(9, <<8>>), OpConstArray(2, <<0, 1, 0, 1>>), OpFcall(3, "flip", <<2>>), OpUnwrap(7, 3), OpLoadIndirect(6, 7), OpReturn(6)>> >>
  [] n.fam = "ptradd" -> << <<OpConst(0, 10), OpConst(1, 20), OpConstArray(2, <<0, 1>>), OpConst(3, n.b), OpBin("add", 4, 2, 3), OpLoadIndirect(5, 4), OpReturn(5)>> >>
  [] n.fam = "flip" -> << <<OpConst(0, 1), OpConst(1, 0), OpConstArray(2, <<0, 1, 0, 1>>), OpFcall(3, "flip", <<2>>), OpConst(8, n.b)>> \o (IF n.sub = "alloca" THEN <<OpAlloca(9, <<8>>)>> ELSE <<>>) \o <<OpConstArray(4, IF n.a = 0 THEN <<1, 0, 1, 0>> ELSE <<1, 0, 0, 0>>), OpUnwrap(7, 3), OpConst(5, 4), OpMemcmp(6, 7, 4, 5), OpReturn(6)>> >>
  [] n.fam = "msg" -> << <<OpConst(0, n.a), OpConst(1, n.b), OpConst(2, 72), OpConst(3, 105), OpConstArray(4, <<2, 3>>), OpConst(5, 2)>> \o (IF n.sub = "assert" THEN <<OpAssert(0, 1, 4, 5)>> ELSE <<OpReport(1, 4, 5)>>) \o <<OpReturn(0)>> >>
  [] n.fam = "case" -> << <<OpConst(0, n.a), OpConst(1, 1), OpConst(2, 2), OpCase(<<0, 1, 2>>, <<3, 1, 2>>)>>, <<OpConst(3, 2), OpReturn(3)>>, <<OpConst(3, 3), OpReturn(3)>>, <<OpConst(3, 5), OpReturn(3)>> >>
  [] n.fam = "dim" -> << <<OpConst(0, n.a), OpConst(1, n.b), OpConst(2, IF n.sub = "to" THEN RANGE_TO ELSE RANGE_DOWNTO), OpConstArray(3, <<0>>), OpWrap(4, <<3, 0, 1, 2>>), OpUarray("uarray_len", 5, 4, 0), OpUarray("uarray_left", 6, 4, 0), OpUarray("uarray_right", 7, 4, 0), OpUarray("uarray_dir", 8, 4, 0), OpReturn(5)>> >>
  [] n.fam = "wrap" -> << <<OpConst(0, 0), OpConst(1, 1), OpConst(2, 5), OpConst(3, 7), OpConst(4, n.b), OpAlloca(5, <<4>>), OpWrap(6, <<5>> \o SubSeq(<<2, 3, 0, 3, 2, 1, 0, 3, 0, 1, 2, 0, 2, 2, 1>>, 1, 3 * n.a)), OpUarray("uarray_right", 7, 6, n.a - 1), OpReturn(7)>> >>
  [] n.fam = "cast" -> << CastSource(n.sub) \o <<OpCast(1, 0, CastType(n.a)), OpReturn(1)>> >>
  [] n.fam = "vars" /\ n.sub = "scalars" -> << <<OpLoad(0, Var(0, 0)), OpLoad(1, Var(0, 1)), OpLoad(2, Var(0, 2)), OpReturn(n.a)>> >>
  [] n.fam = "vars" /\ n.sub = "carray" -> << <<OpIndex(0, Var(0, 0)), OpConst(1, 3), OpStoreIndirect(1, 0), OpLoadIndirect(2, 0), OpReturn(2)>> >>
  [] n.fam = "extern" -> << <<OpConst(0, n.a)>> \o (CASE n.sub = "load" -> <<OpLoad(0, ExternVar(0, 0))>> [] n.sub = "store" -> <<OpStore(0, ExternVar(0, 0))>> [] n.sub = "index" -> <<OpIndex(0, ExternVar(0, 0))>>) \o <<OpReturn(0)>> >>
  [] n.fam = "image" -> << <<IF n.sub = "real" THEN OpConstReal(0, n.a) ELSE OpConst(0, n.a), OpImage(1, 0, n.sub), OpUarray(IF n.b = 0 THEN "uarray_len" ELSE "uarray_left", 2, 1, 0), OpReturn(2)>> >>
  [] n.fam = "copy" -> << <<OpConst(0, 7), OpConst(1, 9), OpConstArray(2, <<0, 1>>), OpConst(3, n.a), OpConst(4, IF n.sub = "index" THEN 1 ELSE 0), OpFcall(5, "dup", <<2, 3, 4>>), OpReturn(5)>> >>
  [] n.fam = "real" -> << <<OpConstReal(0, n.a), OpReturn(0)>> >>
  [] n.fam = "result" /\ n.sub = "int" -> << <<OpConst(0, n.a), OpReturn(0)>> >>
  [] n.fam = "result" /\ n.sub = "pointer" -> << <<OpConst(0, n.a), OpConstArray(1, <<0>>), OpReturn(1)>> >>
  [] n.fam = "result" /\ n.sub = "none" -> << <<OpConst(0, n.a), OpReturnVoid>> >>
  [] n.fam = "result" /\ n.sub = "fall" -> << <<OpConst(0, n.a), OpOther, OpReturn(0)>> >>

\* the variables of the thunk
ThunkVars(n) == CASE n.fam = "vars" /\ n.sub = "scalars" -> <<IntType(INT64_MIN, INT64_MAX), RealType, UArrayType>>
  [] n.fam = "vars" /\ n.sub = "carray" -> <<CArrayType(2)>>
  [] n.fam = "extern" -> <<IntType(INT64_MIN, INT64_MAX)>>
  [] OTHER -> <<>>

lower_thunk(n) == IF n.lowers THEN Unit("thunk", 0, "none", 10, ThunkVars(n), ThunkBlocks(n)) ELSE NoUnit

\* ------------------------------------------------------ the units of the design
\* function add1(x) return x + 1
unit_add1 == Unit("function", 1, "ctx", 3, <<>>, << <<OpConst(1, 1), OpBin("add", 2, 0, 1), OpReturn(2)>> >>)

\* function add4(x) return x + 4, of package PACK
unit_add4 == Unit("function", 1, "pack", 3, <<>>, << <<OpConst(1, 4), OpBin("add", 2, 0, 1), OpReturn(2)>> >>)

\* the enclosing scope of the functions: block 0 initialises its constant k
unit_ctx == Unit("context", 0, "none", 1, <<IntType(INT64_MIN, INT64_MAX)>>, << <<OpConst(0, 40), OpStore(0, Var(0, 0)), OpReturnVoid>> >>)

\* function getk(x) return x + k, k declared in the enclosing scope
unit_getk == Unit("function", 1, "ctx", 3, <<>>, << <<OpLoad(1, Var(0, 0)), OpBin("add", 2, 0, 1), OpReturn(2)>> >>)

\* function chk(x) return natural range 0 to 3
unit_chk == Unit("function", 1, "ctx", 1, <<>>, << <<OpBounds(0, 0, 3, "array_to"), OpReturn(0)>> >>)

\* function chke(x): x checked against the enumeration type 0 .. 3
unit_chke == Unit("function", 1, "ctx", 1, <<>>, << <<OpBounds(0, 0, 3, "enum"), OpReturn(0)>> >>)

\* procedure stamp(x), which never waits: a function unit without a result,
\* called with an fcall op
unit_stamp == Unit("function", 1, "ctx", 1, <<>>, << <<OpReturnVoid>> >>)

\* function mark(x): calls stamp(x) and returns x
unit_mark == Unit("function", 1, "ctx", 1, <<>>, << <<[NoOp EXCEPT !.op = "fcall", !.func = "stamp", !.args = <<0>>], OpReturn(0)>> >>)

\* function flip(x : bit_vector(3 downto 0)) return bit_vector
unit_flip == Unit("function", 1, "ctx", 18, <<CArrayType(4)>>, << <<OpIndex(1, Var(1, 0)), OpConst(2, 1), OpConst(3, 2), OpConst(4, 3), OpLoadIndirect(5, 0), OpBin("add", 6, 1, 4), OpStoreIndirect(5, 6), OpBin("add", 7, 0, 2), OpLoadIndirect(8, 7), OpBin("add", 9, 1, 3), OpStoreIndirect(8, 9), OpBin("add", 10, 0, 3), OpLoadIndirect(11, 10), OpBin("add", 12, 1, 2), OpStoreIndirect(11, 12), OpBin("add", 13, 0, 4), OpLoadIndirect(14, 13), OpStoreIndirect(14, 1), OpConst(15, 0), OpConst(16, RANGE_DOWNTO), OpWrap(17, <<1, 4, 15, 16>>), OpReturn(17)>> >>)

\* function log2(x): variables r and c; block 0 initialises them and tests
\* x <= 1, block 1 is r := 1, block 2 the test c < x of the loop, block 3 its
\* body, block 4 return r
unit_log2 == Unit("function", 1, "ctx", 12, <<IntType(INT_MIN, INT_MAX), IntType(INT_MIN, INT_MAX)>>,
  << <<OpConst(1, 0), OpStore(1, Var(1, 0)), OpConst(2, 1), OpStore(2, Var(1, 1)), OpCmp("leq", 3, 0, 2), OpCond(3, 1, 2)>>,
     <<OpStore(2, Var(1, 0)), OpJump(4)>>,
     <<OpLoad(4, Var(1, 1)), OpCmp("lt", 5, 4, 0), OpCond(5, 3, 4)>>,
     <<OpLoad(6, Var(1, 0)), OpBin("add", 7, 6, 2), OpStore(7, Var(1, 0)), OpLoad(8, Var(1, 1)), OpConst(9, 2), OpBin("mul", 10, 8, 9), OpStore(10, Var(1, 1)), OpJump(2)>>,
     <<OpLoad(11, Var(1, 0)), OpReturn(11)>> >>)

\* the units lowered with the design, and those a library serves on demand
\* function case1(x): case x is when 1 => return 2; when 2 => return 3;
\* when others => return 5
unit_case1 == Unit("function", 1, "ctx", 4, <<>>,
  << <<OpConst(1, 1), OpConst(2, 2), OpCase(<<0, 1, 2>>, <<3, 1, 2>>)>>, <<OpConst(3, 2), OpReturn(3)>>, <<OpConst(3, 3), OpReturn(3)>>, <<OpConst(3, 5), OpReturn(3)>> >>)

\* function setk(x): k := x; return k
unit_setk == Unit("function", 1, "ctx", 3, <<>>, << <<OpStore(0, Var(0, 0)), OpLoad(1, Var(0, 0)), OpReturn(1)>> >>)

\* a scope nested in the scope of k: block 0 initialises its constant j
unit_inner == Unit("context", 1, "ctx", 1, <<IntType(INT64_MIN, INT64_MAX)>>, << <<OpConst(0, 7), OpStore(0, Var(1, 0)), OpReturnVoid>> >>)

\* function getg(x) return x + k, declared in the nested scope
unit_getg == Unit("function", 2, "inner", 3, <<>>, << <<OpLoad(1, Var(0, 0)), OpBin("add", 2, 0, 1), OpReturn(2)>> >>)

\* function geti(x) return x + j, declared in the nested scope
unit_geti == Unit("function", 2, "inner", 3, <<>>, << <<OpLoad(1, Var(1, 0)), OpBin("add", 2, 0, 1), OpReturn(2)>> >>)

\* a scope whose block 0 fails: constant b : natural range 0 to 3 := 9
unit_badctx == Unit("context", 0, "none", 1, <<IntType(0, 3)>>, << <<OpConst(0, 9), OpBounds(0, 0, 3, "array_to"), OpStore(0, Var(0, 0)), OpReturnVoid>> >>)

\* function useb(x), declared in that scope: loads b when x = 1, stores x to
\* b when x = 2, indexes b otherwise, and returns x
unit_useb == Unit("function", 1, "badctx", 4, <<>>,
  << <<OpConst(1, 1), OpConst(2, 2), OpCase(<<0, 1, 2>>, <<3, 1, 2>>)>>, <<OpLoad(3, Var(0, 0)), OpReturn(0)>>, <<OpStore(0, Var(0, 0)), OpReturn(0)>>, <<OpIndex(3, Var(0, 0)), OpReturn(0)>> >>)

\* function dup(x, n, m): a local array r of two elements; r(0 to n - 1) :=
\* x(0 to n - 1), with r addressed by an index op when m is not 0 and by a
\* load op otherwise; returns n
unit_dup == Unit("function", 1, "ctx", 4, <<CArrayType(2)>>,
  << <<OpCond(2, 1, 2)>>, <<OpIndex(3, Var(1, 0)), OpCopy(3, 0, 1), OpReturn(1)>>, <<OpLoad(3, Var(1, 0)), OpCopy(3, 0, 1), OpReturn(1)>> >>)

DesignUnits == {"add1", "getk", "chk", "flip", "log2", "case1", "ctx", "setk", "inner", "getg", "geti", "badctx", "useb", "dup", "chke", "stamp", "mark"}

LibraryUnits == {"add4", "pack"}


\* ------------------------------------------------------------------ state
VARIABLES phase, env, node, flags0, evals, stack, ctxs, mem, vsel, present, errors, diags, ret, pre, fin, allocs, visits, lowered, code, prev

vars == <<phase, env, node, flags0, evals, stack, ctxs, mem, vsel, present, errors, diags, ret, pre, fin, allocs, visits, lowered, code, prev>>

\* phase: "idle" (the driver is between calls of eval), "running" (inside
\*   eval_vcode), "returned" (eval has returned ret to the driver), "fatal" (fatal_at / fatal / fatal_trace ended the process),
\*   "abort" (an assert failed), "crash" (a memory fault ended the process)
\* env: NVC_EVAL_VERBOSE is set in the environment
\* node, flags0: the arguments of the current (or last) call of eval
\* stack: the eval_state_t of every eval_vcode activation, root first
\* ctxs: every context_t allocated by the current call of eval
\* mem: the contents of the evaluation heap, by address
\* vsel: the process-global vcode selection (unit, block)
\* present: the units vcode_find_unit finds
\* errors: the static error counter
\* diags: the diagnostics issued by the current call of eval
\* ret: what the last call of eval returned
\* pre, fin, allocs, visits, lowered: history of the current call of eval
\*   (state at entry, state of the root frame at exit, the calls of
\*   eval_alloc, the number of block selections, lower_thunk was called)

\* prev: the call of eval the driver is about to repeat (node, flags and
\*   what it returned), when it repeats one
\* code: the vcode units by name: the compiled units of the design and of
\*   the library, and the thunk of the current call of eval

\* the thunk of each call site
ThunkOf == [n \in Nodes |-> lower_thunk(n)]

\* the units as compiled, before any thunk is lowered
CompiledUnit(u) == CASE u = "add1" -> unit_add1
  [] u = "add4" -> unit_add4
  [] u = "ctx" -> unit_ctx
  [] u = "getk" -> unit_getk
  [] u = "chk" -> unit_chk
  [] u = "flip" -> unit_flip
  [] u = "log2" -> unit_log2
  [] u = "case1" -> unit_case1
  [] u = "setk" -> unit_setk
  [] u = "inner" -> unit_inner
  [] u = "getg" -> unit_getg
  [] u = "geti" -> unit_geti
  [] u = "badctx" -> unit_badctx
  [] u = "useb" -> unit_useb
  [] u = "dup" -> unit_dup
  [] u = "chke" -> unit_chke
  [] u = "stamp" -> unit_stamp
  [] u = "mark" -> unit_mark
  [] OTHER -> NoUnit

\* vcode_find_unit / vcode_select_unit: the unit registered under a name
UnitOf(u) == IF u \in DOMAIN code THEN code[u] ELSE NoUnit

CurUnit == UnitOf(vsel.unit)

\* the ops of the selected block (vcode_count_ops, vcode_get_op)
CurOps == CurUnit.blocks[vsel.block + 1]

Top == stack[Len(stack)]

\* the loop condition of eval_vcode fails, or a return op has ended it
FrameDone(f) == (~f.run) \/ f.failed \/ f.pc >= Len(CurOps)

\* eval_vcode is about to dispatch the op at index Top.pc
Ready == phase = "running" /\ stack # <<>> /\ ~FrameDone(Top)

CurOp == CurOps[Top.pc + 1]

Dispatch(k) == Ready /\ CurOp.op = k

\* eval_get_reg
Reg(r) == ctxs[Top.ctx].regs[r]

Arg(i) == Reg(CurOp.args[i])

\* a diagnostic: the function that issued it (sev), the location it names,
\* its format and, for the message of an assert or report statement, the
\* severity level and the text it prints
Diag(sev, at, msg) == [sev |-> sev, at |-> at, msg |-> msg, level |-> -1, text |-> <<>>]

\* EVAL_WARN(state->fcall, ...)
EvalWarn(fl, msg) == IF "warn" \in fl THEN <<Diag("warning", "fcall", msg)>> ELSE <<>>

\* ------------------------------------------------------------- eval_alloc
\* nbytes is a size_t and the sum is computed in size_t arithmetic.  The
\* result records the request for the history variable allocs.
eval_alloc(nbytes, st) == LET sum == ToSize(st.halloc + nbytes)
  IN IF sum > EVAL_HEAP
     THEN [st EXCEPT !.failed = TRUE, !.ptr = NULL, !.diags = @ \o EvalWarn(st.flags, "heap exhaustion"), !.log = Append(@, [req |-> nbytes, before |-> st.halloc, after |-> st.halloc, ok |-> FALSE, failed |-> TRUE, ptr |-> NULL])]
     ELSE [st EXCEPT !.heap = HeapBase, !.ptr = HeapBase + st.halloc, !.halloc = sum, !.log = Append(@, [req |-> nbytes, before |-> st.halloc, after |-> sum, ok |-> TRUE, failed |-> st.failed, ptr |-> HeapBase + st.halloc])]

\* the part of an eval_state_t that eval_alloc reads and writes, with the
\* pointer it returns, the warnings it emits and its history
AllocState(f) == [halloc |-> f.halloc, heap |-> f.heap, failed |-> f.failed, flags |-> f.flags, ptr |-> NULL, diags |-> <<>>, log |-> <<>>]


\* ------------------------------------------------------- eval_new_context
SeqToFn(s) == [i \in 0..(Len(s) - 1) |-> s[i + 1]]

RECURSIVE InitVars(_, _, _, _)
\* the loop over the unit's variables: vs are the slots initialised so far,
\* st the caller's allocation state; a type of any other kind is fatal
InitVars(types, i, vs, st) == IF i > Len(types) THEN [vals |-> vs, st |-> st, fatal |-> FALSE]
  ELSE CASE types[i].kind = "carray" -> LET a == eval_alloc(ToSize(SIZEOF_VALUE * types[i].size), st) IN InitVars(types, i + 1, Append(vs, CArrV(a.ptr)), a)
         [] types[i].kind = "int" -> InitVars(types, i + 1, Append(vs, IntV(0)), st)
         [] types[i].kind = "real" -> InitVars(types, i + 1, Append(vs, RealV(0)), st)
         [] types[i].kind = "uarray" -> InitVars(types, i + 1, Append(vs, UArrV(NULL)), st)
         [] OTHER -> [vals |-> vs, st |-> st, fatal |-> TRUE]

\* a context_t: xcalloc zeroes parent and the register slots
eval_new_context(u, st) == LET iv == InitVars(u.vars, 1, <<>>, st)
  IN [ctx |-> [parent |-> 0, regs |-> [r \in 0..(u.nregs - 1) |-> Invalid], vars |-> SeqToFn(iv.vals), live |-> TRUE, frees |-> 0], st |-> iv.st, fatal |-> iv.fatal]

\* eval_state_t of a new eval_vcode activation, with the position of its
\* dispatch loop (pc, run) and what its handler in progress keeps on the C
\* stack while a nested evaluation runs (saved: the vcode_state_t; walk: the
\* context and depth the loop of eval_get_var has reached)
NoSel == [unit |-> "none", block |-> 0]

NoWalk == [ctx |-> 0, depth |-> 0]

Frame(k, c, fl, hp, ha) == [kind |-> k, ctx |-> c, result |-> NO_RESULT, failed |-> FALSE, flags |-> fl, heap |-> hp, halloc |-> ha, pc |-> 0, run |-> TRUE, saved |-> NoSel, walk |-> NoWalk]

\* ---------------------------------------------------------- eval_possible
RECURSIVE eval_possible(_, _)
RECURSIVE PossibleParams(_, _, _)
RECURSIVE PossibleParams_nofold(_, _, _)
\* PossibleParams without the test of the fold flag (a faulty variant; C14
\* must not hold of it)
PossibleParams_nofold(t, i, fl) == IF i > Len(t.params) THEN [ok |-> TRUE, diags |-> <<>>]
  ELSE LET p == t.params[i]
       IN IF p.kind = "fcall" /\ "fcall" \notin fl THEN [ok |-> FALSE, diags |-> <<>>]
          ELSE LET r == eval_possible(p, fl) IN IF ~r.ok THEN r ELSE PossibleParams_nofold(t, i + 1, fl)

\* the loop over the parameters of a T_FCALL, from parameter i on
PossibleParams(t, i, fl) == IF i > Len(t.params) THEN [ok |-> TRUE, diags |-> <<>>]
  ELSE LET p == t.params[i]
           fcall == p.kind = "fcall"
       IN IF "fold" \in fl /\ fcall /\ p.scalar THEN [ok |-> FALSE, diags |-> <<>>]
          ELSE IF fcall /\ "fcall" \notin fl THEN [ok |-> FALSE, diags |-> <<>>]
          ELSE LET r == eval_possible(p, fl) IN IF ~r.ok THEN r ELSE PossibleParams(t, i + 1, fl)

eval_possible(t, fl) == CASE t.kind = "fcall" -> IF t.impure THEN [ok |-> FALSE, diags |-> <<>>] ELSE PossibleParams(t, 1, fl)
  [] t.kind = "literal" -> [ok |-> TRUE, diags |-> <<>>]
  [] t.kind = "type_conv" -> eval_possible(t.params[1], fl)
  [] t.kind = "ref" -> (CASE t.decl \in {"unit_decl", "enum_lit"} -> [ok |-> TRUE, diags |-> <<>>]
                          [] t.decl = "const_decl" -> eval_possible(t.params[1], fl)
                          [] OTHER -> [ok |-> FALSE, diags |-> <<>>])
  [] OTHER -> [ok |-> FALSE, diags |-> IF "warn" \in fl THEN <<Diag("warning", "tree", "expression prevents constant folding")>> ELSE <<>>]


\* ---------------------------------------------------------------- helpers
NoMem == [a \in {} |-> Invalid]

NoRet == [kind |-> "none", val |-> 0]

NodeRet == [kind |-> "node", val |-> 0]

NoFin == [ran |-> FALSE, failed |-> FALSE, val |-> Invalid]

SetReg(cx, c, r, v) == [cx EXCEPT ![c].regs[r] = v]

\* an op handler that returns to the dispatch loop: the new process phase,
\* stack, contexts, heap contents and diagnostics; nothing else changes
Change(ph, st, cx, m, d) == /\ phase' = ph
  /\ stack' = st
  /\ ctxs' = cx
  /\ mem' = m
  /\ diags' = d
  /\ UNCHANGED <<env, node, flags0, evals, ret, pre, fin, lowered, code, prev>>

\* ... and that selects no block, loads no unit, counts no error and does
\* not allocate
Effect(ph, st, cx, m, d) == Change(ph, st, cx, m, d) /\ UNCHANGED <<vsel, present, errors, allocs, visits>>

\* the handler wrote v to its result register; the loop goes to the next op
RegWrite(v) == Effect("running", [stack EXCEPT ![Len(stack)].pc = @ + 1], SetReg(ctxs, Top.ctx, CurOp.res, v), mem, diags)

\* the handler changed nothing (a break out of the switch)
Skip == Effect("running", [stack EXCEPT ![Len(stack)].pc = @ + 1], ctxs, mem, diags)

\* the handler set state->failed and, under EVAL_WARN, warned
Fail(w) == Effect("running", [stack EXCEPT ![Len(stack)].failed = TRUE, ![Len(stack)].pc = @ + 1], ctxs, mem, diags \o w)

\* fatal_at, fatal and fatal_trace print a diagnostic and end the process
Fatal(at, msg) == Effect("fatal", stack, ctxs, mem, Append(diags, Diag("fatal", at, msg)))

\* a failed assert() aborts the process
Abort == Effect("abort", stack, ctxs, mem, diags)

\* a memory fault or an arithmetic trap ends the process
Crash == Effect("crash", stack, ctxs, mem, diags)

RECURSIVE FreeChain(_, _, _)
\* eval_free_context: the parent chain first, then the context itself; n
\* bounds the walk by the number of contexts
FreeChain(cx, c, n) == IF c = 0 \/ n = 0 THEN cx
  ELSE FreeChain([cx EXCEPT ![c] = [@ EXCEPT !.live = FALSE, !.frees = @ + 1, !.regs = <<>>, !.vars = <<>>]], cx[c].parent, n - 1)

\* eval_free_context that leaves the parent chain alone (a faulty variant;
\* C35 must not hold of it)
eval_free_context_noparent(cx, c) == FreeChain(cx, c, 1)

eval_free_context(cx, c) == FreeChain(cx, c, Len(cx))

\* no call is being repeated
NoPrev == [set |-> FALSE, node |-> Node("none", "none", 0, 0, FALSE), flags |-> {}, ret |-> NoRet]

\* --------------------------------------------------------------------- Init
Init == /\ phase = "idle"
  /\ env \in BOOLEAN
  /\ node = Node("none", "none", 0, 0, FALSE)
  /\ flags0 = {}
  /\ evals = 0
  /\ stack = <<>>
  /\ ctxs = <<>>
  /\ mem = NoMem
  /\ vsel = NoSel
  /\ present = DesignUnits
  /\ errors = 0
  /\ diags = <<>>
  /\ ret = NoRet
  /\ pre = [errors |-> 0, vsel |-> NoSel, present |-> DesignUnits]
  /\ fin = NoFin
  /\ allocs = <<>>
  /\ visits = 0
  /\ lowered = FALSE
  /\ prev = NoPrev
  /\ code = [u \in {"thunk"} \cup DesignUnits \cup LibraryUnits |-> CompiledUnit(u)]

\* --------------------------------------------------------------------- eval
\* eval_filter without the test of type_is_scalar (a faulty variant; C2 must
\* not hold of it)
eval_filter_any(n, f) == eval_possible(n.tree, f)

\* the two early returns of eval(): type_is_scalar of the call's type, then
\* eval_possible
eval_filter(n, f) == IF ~n.scalar THEN [ok |-> FALSE, diags |-> <<>>] ELSE eval_possible(n.tree, f)

\* eval() up to its call of eval_vcode.  The root context is built by
\* eval_new_context(NULL): a thunk variable of constrained-array type (or of
\* a type it cannot evaluate) makes it read through the null state.
eval_enter(n, f) == LET poss == eval_filter(n, f)
      f1 == IF env THEN f \cup {"verbose"} ELSE f
      f2 == IF "verbose" \in f1 THEN f1 \cup {"warn", "bounds"} ELSE f1
      thunk == lower_thunk(n)
      nc == eval_new_context(thunk, AllocState(Frame("root", 1, f2, NULL, 0)))
      note == IF "verbose" \in f2 THEN <<Diag("note", "fcall", "evaluate thunk")>> ELSE <<>>
      early == (~poss.ok) \/ thunk = NoUnit
      fault == (~early) /\ \E i \in DOMAIN thunk.vars : thunk.vars[i].kind \notin {"int", "real", "uarray"}
  IN /\ phase = "idle"
     /\ evals < MaxEvals
     /\ node' = n
     /\ flags0' = f
     /\ evals' = evals + 1
     /\ pre' = [errors |-> errors, vsel |-> vsel, present |-> present]
     /\ fin' = NoFin
     /\ allocs' = <<>>
     /\ mem' = NoMem
     /\ lowered' = poss.ok
     /\ code' = [code EXCEPT !["thunk"] = IF poss.ok THEN thunk ELSE NoUnit]
     /\ diags' = IF early THEN poss.diags ELSE note
     /\ ret' = IF early THEN NodeRet ELSE NoRet
     /\ phase' = IF early THEN "returned" ELSE IF fault THEN "crash" ELSE "running"
     /\ vsel' = IF early THEN vsel ELSE [unit |-> "thunk", block |-> 0]
     /\ visits' = IF early THEN 0 ELSE 1
     /\ ctxs' = IF early \/ fault THEN <<>> ELSE <<nc.ctx>>
     /\ stack' = IF early \/ fault THEN <<>> ELSE <<Frame("root", 1, f2, NULL, 0)>>
     /\ UNCHANGED <<env, present, errors, prev>>

\* the driver calls eval: on any call site first; afterwards it either
\* repeats the call it has just made, with the same flags, or goes on to
\* another call site
eval_call == \E n \in (IF evals = 0 THEN Nodes ELSE IF prev.set THEN {prev.node} ELSE LaterNodes), f \in (IF prev.set THEN {prev.flags} ELSE FlagSets) : eval_enter(n, f)

\* the driver (fold_tree_fn under tree_rewrite, or another caller) takes the
\* tree eval returned and goes on; the history of that call is dropped
driver_next == /\ phase = "returned"
  /\ phase' = "idle"
  /\ node' = Node("none", "none", 0, 0, FALSE)
  /\ flags0' = {}
  /\ ctxs' = <<>>
  /\ diags' = <<>>
  /\ ret' = NoRet
  /\ pre' = [errors |-> 0, vsel |-> NoSel, present |-> DesignUnits]
  /\ fin' = NoFin
  /\ allocs' = <<>>
  /\ visits' = 0
  /\ lowered' = FALSE
  /\ code' = [code EXCEPT !["thunk"] = NoUnit]
  /\ (\E again \in BOOLEAN : prev' = IF again /\ evals < MaxEvals THEN [set |-> TRUE, node |-> node, flags |-> flags0, ret |-> ret] ELSE NoPrev)
  /\ UNCHANGED <<env, evals, stack, mem, vsel, present, errors>>


\* reify without the test of type_is_enum (a faulty variant; C3 must not hold
\* of it)
reify_int(en, res) == [kind |-> IF res.kind = "Real" THEN "real_lit" ELSE "int_lit", val |-> res.v]

\* get_enum_lit / get_int_lit / get_real_lit on the result register
reify(en, res) == [kind |-> IF res.kind = "Real" THEN "real_lit" ELSE IF en THEN "enum_lit" ELSE "int_lit", val |-> res.v]

\* eval() after eval_vcode returns: free the heap, then either return the
\* call (failed) or reify the result register as a literal
eval_exit == LET f == Top
      res == ctxs[f.ctx].regs[f.result]
      freed == eval_free_context(ctxs, f.ctx)
      note == IF "verbose" \in f.flags THEN <<Diag("note", "fcall", "returned")>> ELSE <<>>
      Leave(ph, cx, d, rv, fv) == /\ phase' = ph
        /\ ctxs' = cx
        /\ diags' = d
        /\ ret' = rv
        /\ fin' = fv
        /\ stack' = IF ph = "returned" THEN <<>> ELSE stack
  IN /\ phase = "running"
     /\ Len(stack) = 1
     /\ FrameDone(f)
     /\ mem' = NoMem
     /\ IF f.failed THEN Leave("returned", freed, diags, NodeRet, [ran |-> TRUE, failed |-> TRUE, val |-> Invalid])
        ELSE IF f.result = NO_RESULT THEN Leave("abort", ctxs, diags, ret, fin)
        ELSE IF res.kind = "Integer" THEN Leave("returned", freed, diags \o note, reify(node.enum, res), [ran |-> TRUE, failed |-> FALSE, val |-> res])
        ELSE IF res.kind = "Real" THEN Leave("returned", freed, diags \o note, reify(node.enum, res), [ran |-> TRUE, failed |-> FALSE, val |-> res])
        ELSE Leave("fatal", freed, Append(diags \o note, Diag("fatal", "none", "eval result is not scalar")), ret, [ran |-> TRUE, failed |-> FALSE, val |-> res])
     /\ UNCHANGED <<env, node, flags0, evals, vsel, present, errors, pre, allocs, visits, lowered, code, prev>>

\* ------------------------------------------------------------ simple ops
op_comment == Dispatch("comment") /\ Skip

\* VCODE_OP_CONST
op_const == Dispatch("const") /\ RegWrite(IntV(CurOp.val))

\* VCODE_OP_CONST_REAL
op_const_real == Dispatch("const_real") /\ RegWrite(RealV(CurOp.val))

\* VCODE_OP_RETURN: eval_op_return, then eval_vcode returns
op_return == /\ Dispatch("return")
  /\ Effect("running", [stack EXCEPT ![Len(stack)].run = FALSE, ![Len(stack)].result = IF Len(CurOp.args) > 0 THEN CurOp.args[1] ELSE @], ctxs, mem, diags)

\* default: of the switch in eval_vcode
op_other == Dispatch("other") /\ Fatal("none", "cannot evaluate vcode op")

\* ------------------------------------------------------------ arithmetic
\* Real payloads are fixed-point numbers with RealScale units to one.
RealScale == 100

\* a signed overflow of + - * is undefined: the build wraps or traps
Overflow(x) == IF x = Wrap64(x) THEN {"exact"} ELSE {"wrap", "trap"}

op_add == /\ Dispatch("add")
  /\ LET l == Arg(1)
         r == Arg(2)
     IN CASE l.kind = "Integer" -> \E o \in Overflow(l.v + r.v) : IF o = "trap" THEN Crash ELSE RegWrite(IntV(Wrap64(l.v + r.v)))
          [] l.kind = "Real" -> RegWrite(RealV(l.v + r.v))
          [] l.kind = "Pointer" -> IF r.kind = "Integer" THEN RegWrite(PtrV(l.v + SIZEOF_VALUE * r.v)) ELSE Abort
          [] OTHER -> Fatal("none", "invalid value type")

op_sub == /\ Dispatch("sub")
  /\ LET l == Arg(1)
         r == Arg(2)
     IN CASE l.kind = "Integer" -> \E o \in Overflow(l.v - r.v) : IF o = "trap" THEN Crash ELSE RegWrite(IntV(Wrap64(l.v - r.v)))
          [] l.kind = "Real" -> RegWrite(RealV(l.v - r.v))
          [] OTHER -> Fatal("none", "invalid value type")

op_mul == /\ Dispatch("mul")
  /\ LET l == Arg(1)
         r == Arg(2)
     IN CASE l.kind = "Integer" -> \E o \in Overflow(l.v * r.v) : IF o = "trap" THEN Crash ELSE RegWrite(IntV(Wrap64(l.v * r.v)))
          [] l.kind = "Real" -> RegWrite(RealV((l.v * r.v) \div RealScale))
          [] OTHER -> Fatal("none", "invalid value type")

\* INT64_MIN / -1 and INT64_MIN % -1 overflow: the division traps or wraps
DivOutcomes(l, r) == IF l = INT64_MIN /\ r = -1 THEN {"trap", "wrap"} ELSE {"exact"}

\* op_div without the test of the divisor, the quotient by zero taken as 0 (a
\* faulty variant; C9 must not hold of it)
op_div_nocheck == /\ Dispatch("div")
  /\ LET l == Arg(1)
         r == Arg(2)
     IN CASE l.kind = "Integer" -> \E o \in DivOutcomes(l.v, r.v) : IF o = "trap" THEN Crash ELSE RegWrite(IntV(IF r.v = 0 THEN 0 ELSE Wrap64(CDiv(l.v, r.v))))
          [] l.kind = "Real" -> IF r.v = 0 THEN RegWrite(RealV(INT64_MAX)) ELSE RegWrite(RealV((l.v * RealScale) \div r.v))
          [] OTHER -> Fatal("none", "invalid value type")

op_div == /\ Dispatch("div")
  /\ LET l == Arg(1)
         r == Arg(2)
     IN CASE l.kind = "Integer" -> IF r.v = 0 THEN Fatal("fcall", "division by zero")
                                    ELSE \E o \in DivOutcomes(l.v, r.v) : IF o = "trap" THEN Crash ELSE RegWrite(IntV(Wrap64(CDiv(l.v, r.v))))
          [] l.kind = "Real" -> IF r.v = 0 THEN RegWrite(RealV(INT64_MAX)) ELSE RegWrite(RealV((l.v * RealScale) \div r.v))
          [] OTHER -> Fatal("none", "invalid value type")

op_mod == /\ Dispatch("mod")
  /\ LET l == Arg(1)
         r == Arg(2)
     IN CASE l.kind = "Integer" -> IF r.v = 0 THEN Fatal("fcall", "division by zero")
                                    ELSE \E o \in DivOutcomes(l.v, r.v) : IF o = "trap" THEN Crash ELSE RegWrite(IntV(Abs(CRem(l.v, r.v))))
          [] OTHER -> Fatal("none", "invalid value type")

op_rem == /\ Dispatch("rem")
  /\ LET l == Arg(1)
         r == Arg(2)
     IN CASE l.kind = "Integer" -> IF r.v = 0 THEN Fatal("fcall", "division by zero")
                                    ELSE \E o \in DivOutcomes(l.v, r.v) : IF o = "trap" THEN Crash ELSE RegWrite(IntV(Wrap64(l.v - Wrap64(Wrap64(CDiv(l.v, r.v)) * r.v))))
          [] OTHER -> Fatal("none", "invalid value type")

\* ----------------------------------------------------------------- compare
\* eval_value_cmp returns an int: the 64-bit difference is converted to int
eval_value_cmp(l, r) == IF l.kind # r.kind THEN [err |-> "abort", val |-> 0]
  ELSE CASE l.kind = "Integer" -> [err |-> "none", val |-> ToInt(Wrap64(l.v - r.v))]
         [] l.kind = "Real" -> [err |-> "none", val |-> IF l.v - r.v < 0 THEN -1 ELSE IF l.v - r.v > 0 THEN 1 ELSE 0]
         [] l.kind = "Pointer" -> [err |-> "none", val |-> ToInt(CDiv(l.v - r.v, SIZEOF_VALUE))]
         [] OTHER -> [err |-> "fatal", val |-> 0]

Bool(b) == IF b THEN 1 ELSE 0

op_cmp == /\ Dispatch("cmp")
  /\ LET c == eval_value_cmp(Arg(1), Arg(2))
     IN IF CurOp.sub \notin CmpKinds THEN Fatal("none", "cannot handle comparison")
        ELSE IF c.err = "abort" THEN Abort
        ELSE IF c.err = "fatal" THEN Fatal("none", "invalid value type")
        ELSE CASE CurOp.sub = "eq" -> RegWrite(IntV(Bool(c.val = 0)))
               [] CurOp.sub = "neq" -> RegWrite(IntV(Bool(c.val # 0)))
               [] CurOp.sub = "gt" -> RegWrite(IntV(Bool(c.val > 0)))
               [] CurOp.sub = "geq" -> RegWrite(IntV(Bool(c.val >= 0)))
               [] CurOp.sub = "lt" -> RegWrite(IntV(Bool(c.val < 0)))
               [] CurOp.sub = "leq" -> RegWrite(IntV(Bool(c.val <= 0)))

\* ------------------------------------------------------------------- cast
\* A value_t holds its payload in a union of an int64_t, a double and two
\* pointers.  A handler that sets the kind and leaves the payload unwritten
\* leaves the bytes the register held: the same number when the old payload
\* was an integer or an address (or all zero, as xcalloc leaves it) and the
\* new one is too, and the bit pattern of a double taken as an integer, or
\* the reverse, otherwise (representatives).
StalePayload(old, real) == IF old.v = 0 THEN {0}
  ELSE IF (old.kind = "Real") = real THEN {old.v}
  ELSE {0, 1, INT64_MAX}

\* (int64_t) of a double: the fraction is discarded; undefined when the
\* result does not fit, where the build yields the wrapped value or
\* INT64_MIN
RealToInt(x) == LET t == CDiv(x, RealScale) IN IF t = Wrap64(t) THEN {t} ELSE {Wrap64(t), INT64_MIN}

\* (double) of an int64_t that the double holds exactly
IntToReal(n) == n * RealScale

\* eval_op_cast
op_cast == /\ Dispatch("cast")
  /\ LET src == Arg(1)
         dst == Reg(CurOp.res)
     IN CASE CurOp.ty.kind \in {"int", "offset"} ->
               (CASE src.kind = "Integer" -> RegWrite(IntV(src.v))
                  [] src.kind = "Real" -> (\E n \in RealToInt(src.v) : RegWrite(IntV(n)))
                  [] OTHER -> (\E n \in StalePayload(dst, FALSE) : RegWrite(IntV(n))))
          [] CurOp.ty.kind = "real" ->
               (CASE src.kind = "Integer" -> RegWrite(RealV(IntToReal(src.v)))
                  [] src.kind = "Real" -> RegWrite(RealV(src.v))
                  [] OTHER -> (\E x \in StalePayload(dst, TRUE) : RegWrite(RealV(x))))
          [] OTHER -> Fatal("none", "cannot handle destination type in cast")

\* ------------------------------------------------------------ heap contents
\* mem maps the address of a written value_t to the value and the address of
\* a written uarray_t to [kind |-> "Descr", v |-> its fields].  The buffer
\* comes from xmalloc: what was never written is indeterminate.  A uarray_t
\* is dim[MAX_DIMS] (SIZEOF_DIM bytes each) followed by ndims and data, which
\* share its last SIZEOF_VALUE bytes: a value_t written there sets ndims to
\* the value's kind and data to its payload, and one written lower makes the
\* dims it overlaps indeterminate (junk).  Every allocation is a multiple of
\* SIZEOF_VALUE bytes, so objects overlap only at such offsets.
SIZEOF_DIM == 24

OFFSET_DATA == 96

Descr(nd, data, dims) == [kind |-> "Descr", v |-> [ndims |-> nd, data |-> data, dim |-> dims, junk |-> {}]]

\* a uarray_t whose last bytes another uarray_t was written over
Clobbered == [kind |-> "Clobbered", v |-> 0]

Segv == [kind |-> "Segv", v |-> 0]

\* value_kind_t
KindCode(k) == CASE k = "Invalid" -> 0 [] k = "Real" -> 1 [] k = "Integer" -> 2 [] k = "Pointer" -> 3 [] k = "UArray" -> 4 [] k = "CArray" -> 5

\* what a read of indeterminate memory may yield (representatives)
Garbage == {Invalid, IntV(0), IntV(1)}

GarbageData == {PtrV(NULL), PtrV(HeapBase)}

\* the value_t at address a lies inside the xmalloc'ed buffer
InBuffer(a) == Top.heap # NULL /\ a >= HeapBase /\ a + SIZEOF_VALUE <= HeapBase + EVAL_HEAP

\* the object of SIZEOF_UARRAY bytes at d holds address a, past its start
Covers(d, a) == d < a /\ a < d + SIZEOF_UARRAY

\* the dims of a uarray_t that the bytes from offset lo up to hi overlap
DimsHit(lo, hi) == {i \in 1..MAX_DIMS : SIZEOF_DIM * (i - 1) < hi /\ lo < SIZEOF_DIM * i}

\* the uarray_t at x after value v is written at address a inside it
Overwrite(x, ent, a, v) == IF a - x = OFFSET_DATA THEN [ent EXCEPT !.v.ndims = KindCode(v.kind), !.v.data = v.v]
  ELSE [ent EXCEPT !.v.junk = @ \cup DimsHit(a - x, a - x + SIZEOF_VALUE)]

WriteCell(m, a, v) == [x \in DOMAIN m \cup {a} |->
  IF x = a THEN (IF a \in DOMAIN m /\ m[a].kind = "Descr" THEN Overwrite(a, m[a], a, v) ELSE v)
  ELSE IF m[x].kind = "Descr" /\ Covers(x, a) THEN Overwrite(x, m[x], a, v)
  ELSE m[x]]

WriteDescr(m, a, d) == [x \in {y \in DOMAIN m : ~Covers(a, y)} \cup {a} |-> IF x = a THEN d ELSE IF m[x].kind = "Descr" /\ Covers(x, a) THEN Clobbered ELSE m[x]]

RECURSIVE WriteCells(_, _, _, _)
\* vals[i..] written to consecutive cells from a
WriteCells(m, a, vals, i) == IF i > Len(vals) THEN m ELSE WriteCells(WriteCell(m, a, vals[i]), a + SIZEOF_VALUE, vals, i + 1)

\* the outcomes of reading the value_t at a: the value written there, an
\* indeterminate value, or a memory fault
ReadCell(m, a) == IF a \in DOMAIN m /\ m[a].kind \notin {"Descr", "Clobbered"} THEN {m[a]}
  ELSE IF InBuffer(a) THEN Garbage
  ELSE IF a = NULL THEN {Segv}
  ELSE Garbage \cup {Segv}

\* the outcomes of reading the data field of a uarray_t at a
ReadData(m, a) == IF a \in DOMAIN m /\ m[a].kind = "Descr" THEN {PtrV(m[a].v.data)}
  ELSE IF a + OFFSET_DATA \in DOMAIN m /\ m[a + OFFSET_DATA].kind \notin {"Descr", "Clobbered"} THEN {PtrV(m[a + OFFSET_DATA].v)}
  ELSE IF InBuffer(a + OFFSET_DATA) THEN GarbageData
  ELSE IF a = NULL THEN {Segv}
  ELSE GarbageData \cup {Segv}

\* the frame after a handler that called eval_alloc returns to the loop
AfterAlloc(f, a) == [f EXCEPT !.halloc = a.halloc, !.heap = a.heap, !.failed = a.failed, !.pc = @ + 1]

\* a handler that allocated: a is the allocation state it ends with
Allocated(a, cx, m) == /\ Change("running", [stack EXCEPT ![Len(stack)] = AfterAlloc(@, a)], cx, m, diags \o a.diags)
  /\ allocs' = allocs \o a.log
  /\ UNCHANGED <<vsel, present, errors, visits>>

\* ------------------------------------------------------------- memory ops
op_const_array == /\ Dispatch("const_array")
  /\ LET a == eval_alloc(ToSize(SIZEOF_VALUE * Len(CurOp.args)), AllocState(Top))
         cx == SetReg(ctxs, Top.ctx, CurOp.res, PtrV(a.ptr))
         vals == [i \in 1..Len(CurOp.args) |-> cx[Top.ctx].regs[CurOp.args[i]]]
     IN Allocated(a, cx, IF a.ptr = NULL THEN mem ELSE WriteCells(mem, a.ptr, vals, 1))

\* op_wrap without the test of the number of dimensions
op_wrap_nolimit == /\ Dispatch("wrap")
  /\ IF Arg(1).kind # "Pointer" THEN Abort
     ELSE LET a == eval_alloc(SIZEOF_UARRAY, AllocState(Top))
              cx == SetReg(ctxs, Top.ctx, CurOp.res, UArrV(a.ptr))
              ndims == (Len(CurOp.args) - 1) \div 3
              dims == [i \in 1..ndims |-> [left |-> Arg(3 * i - 1).v, right |-> Arg(3 * i).v, dir |-> Arg(3 * i + 1).v]]
          IN IF a.ptr = NULL THEN Allocated(a, cx, mem)
             ELSE Allocated(a, cx, WriteDescr(mem, a.ptr, Descr(ndims, Arg(1).v, dims)))

\* the result register is assumed not to be the source register (SSA)
op_wrap == /\ Dispatch("wrap")
  /\ IF Arg(1).kind # "Pointer" THEN Abort
     ELSE LET a == eval_alloc(SIZEOF_UARRAY, AllocState(Top))
              cx == SetReg(ctxs, Top.ctx, CurOp.res, UArrV(a.ptr))
              ndims == (Len(CurOp.args) - 1) \div 3
              dims == [i \in 1..ndims |-> [left |-> Arg(3 * i - 1).v, right |-> Arg(3 * i).v, dir |-> Arg(3 * i + 1).v]]
          IN IF a.ptr = NULL THEN Allocated(a, cx, mem)
             ELSE IF ndims > MAX_DIMS THEN Allocated([a EXCEPT !.failed = TRUE, !.diags = @ \o EvalWarn(Top.flags, "dimensional array prevents constant folding")], cx, WriteDescr(mem, a.ptr, Descr(-1, Arg(1).v, <<>>)))
             ELSE Allocated(a, cx, WriteDescr(mem, a.ptr, Descr(ndims, Arg(1).v, dims)))

\* what dim[] holds where it was not written (representatives)
GarbageDim == {[left |-> 0, right |-> 0, dir |-> RANGE_TO], [left |-> 1, right |-> 0, dir |-> RANGE_DOWNTO]}

\* the outcomes of reading dim[d] of the uarray_t at a
ReadDim(m, a, d) == IF a \in DOMAIN m /\ m[a].kind = "Descr" /\ d + 1 \in DOMAIN m[a].v.dim /\ d + 1 \notin m[a].v.junk THEN {[err |-> "none", dim |-> m[a].v.dim[d + 1]]}
  ELSE IF InBuffer(a) /\ InBuffer(a + SIZEOF_UARRAY - SIZEOF_VALUE) /\ d \in 0..(MAX_DIMS - 1) THEN {[err |-> "none", dim |-> g] : g \in GarbageDim}
  ELSE IF a = NULL THEN {[err |-> "segv", dim |-> [left |-> 0, right |-> 0, dir |-> RANGE_TO]]}
  ELSE {[err |-> "none", dim |-> g] : g \in GarbageDim} \cup {[err |-> "segv", dim |-> [left |-> 0, right |-> 0, dir |-> RANGE_TO]]}

\* the source register is read as a uarray pointer whatever its kind; the
\* difference of the bounds and the + 1 are int64_t arithmetic
op_uarray_len == /\ Dispatch("uarray_len")
  /\ \E x \in ReadDim(mem, Arg(1).v, CurOp.dim) :
       IF x.err = "segv" THEN Crash
       ELSE LET diff == IF x.dim.dir = RANGE_TO THEN x.dim.right - x.dim.left ELSE x.dim.left - x.dim.right
            IN \E o1 \in Overflow(diff), o2 \in Overflow(Wrap64(diff) + 1) :
                 IF o1 = "trap" \/ o2 = "trap" THEN Crash ELSE RegWrite(IntV(Max(Wrap64(Wrap64(diff) + 1), 0)))

op_uarray_dir == /\ Dispatch("uarray_dir")
  /\ \E x \in ReadDim(mem, Arg(1).v, CurOp.dim) : IF x.err = "segv" THEN Crash ELSE RegWrite(IntV(x.dim.dir))

op_uarray_left == /\ Dispatch("uarray_left")
  /\ IF Arg(1).kind # "UArray" THEN Abort
     ELSE \E x \in ReadDim(mem, Arg(1).v, CurOp.dim) : IF x.err = "segv" THEN Crash ELSE RegWrite(IntV(x.dim.left))

op_uarray_right == /\ Dispatch("uarray_right")
  /\ IF Arg(1).kind # "UArray" THEN Abort
     ELSE \E x \in ReadDim(mem, Arg(1).v, CurOp.dim) : IF x.err = "segv" THEN Crash ELSE RegWrite(IntV(x.dim.right))

op_unwrap == /\ Dispatch("unwrap")
  /\ \E d \in ReadData(mem, Arg(1).v) : IF d = Segv THEN Crash ELSE RegWrite(d)

\* length is an int: the register's value is converted to int, and
\* sizeof(value_t) * length to size_t
op_alloca == /\ Dispatch("alloca")
  /\ IF Len(CurOp.args) > 0 /\ Arg(1).kind # "Integer" THEN Abort
     ELSE LET length == IF Len(CurOp.args) > 0 THEN ToInt(Arg(1).v) ELSE 1
              a == eval_alloc(ToSize(SIZEOF_VALUE * length), AllocState(Top))
          IN Allocated(a, SetReg(ctxs, Top.ctx, CurOp.res, PtrV(a.ptr)), mem)

op_load_indirect == /\ Dispatch("load_indirect")
  /\ IF Arg(1).kind # "Pointer" THEN Abort
     ELSE \E v \in ReadCell(mem, Arg(1).v) : IF v = Segv THEN Crash ELSE RegWrite(v)

\* a store outside the buffer faults or corrupts memory the model does not hold
op_store_indirect == /\ Dispatch("store_indirect")
  /\ IF Arg(2).kind # "Pointer" THEN Abort
     ELSE IF InBuffer(Arg(2).v) THEN Effect("running", [stack EXCEPT ![Len(stack)].pc = @ + 1], ctxs, WriteCell(mem, Arg(2).v, Arg(1)), diags)
     ELSE \E o \in (IF Arg(2).v = NULL THEN {"fault"} ELSE {"fault", "silent"}) : IF o = "fault" THEN Crash ELSE Skip

\* assert(reg->kind = k): the assignment gives the register kind k, whose
\* code is not 0, so the assert passes; the payload bytes stay
Retag(v, k) == {[kind |-> k, v |-> p] : p \in IF v.kind = k THEN {v.v} ELSE StalePayload(v, FALSE)}

RECURSIVE CopyCells(_, _, _, _, _)
\* the loop of eval_op_copy from index i: the arena it can end with, or a
\* memory fault; a store outside the buffer faults or corrupts memory the
\* model does not hold
CopyCells(m, d, x, i, n) == IF i >= n THEN {[err |-> "none", mem |-> m]}
  ELSE UNION {IF v = Segv THEN {[err |-> "segv", mem |-> m]}
              ELSE IF InBuffer(d + SIZEOF_VALUE * i) THEN CopyCells(WriteCell(m, d + SIZEOF_VALUE * i, v), d, x, i + 1, n)
              ELSE {[err |-> "segv", mem |-> m]} \cup (IF d + SIZEOF_VALUE * i = NULL THEN {} ELSE CopyCells(m, d, x, i + 1, n)) : v \in ReadCell(m, x + SIZEOF_VALUE * i)}

\* eval_op_copy
op_copy == /\ Dispatch("copy")
  /\ \E dst \in Retag(Arg(1), "Pointer") :
       LET c1 == SetReg(ctxs, Top.ctx, CurOp.args[1], dst)
       IN \E src \in Retag(c1[Top.ctx].regs[CurOp.args[2]], "Pointer") :
            LET c2 == SetReg(c1, Top.ctx, CurOp.args[2], src)
            IN \E count \in Retag(c2[Top.ctx].regs[CurOp.args[3]], "Integer") :
                 LET c3 == SetReg(c2, Top.ctx, CurOp.args[3], count)
                     p == c3[Top.ctx].regs[CurOp.args[1]].v
                     q == c3[Top.ctx].regs[CurOp.args[2]].v
                 IN \E o \in CopyCells(mem, p, q, 0, count.v) :
                      IF o.err = "segv" THEN Crash
                      ELSE Effect("running", [stack EXCEPT ![Len(stack)].pc = @ + 1], c3, o.mem, diags)

RECURSIVE MemcmpOutcomes(_, _, _, _)
\* the loop of eval_op_memcmp from index i: the values dst->integer can end
\* with, the way eval_value_cmp ended the process, or a memory fault
MemcmpOutcomes(l, r, i, n) == IF i >= n THEN {[err |-> "none", val |-> 1]}
  ELSE LET ls == ReadCell(mem, l + SIZEOF_VALUE * i)
           rs == ReadCell(mem, r + SIZEOF_VALUE * i)
           One(x, y) == IF x = Segv \/ y = Segv THEN {[err |-> "segv", val |-> 0]}
                        ELSE LET c == eval_value_cmp(x, y)
                             IN IF c.err # "none" THEN {[err |-> c.err, val |-> 0]} ELSE IF c.val # 0 THEN {[err |-> "none", val |-> 0]} ELSE MemcmpOutcomes(l, r, i + 1, n)
       IN UNION {One(x, y) : x \in ls, y \in rs}

op_memcmp == /\ Dispatch("memcmp")
  /\ IF Arg(1).kind # "Pointer" \/ Arg(2).kind # "Pointer" THEN Abort
     ELSE \E o \in MemcmpOutcomes(Arg(1).v, Arg(2).v, 0, Arg(3).v) :
            CASE o.err = "segv" -> Crash
              [] o.err = "abort" -> Abort
              [] o.err = "fatal" -> Fatal("none", "invalid value type")
              [] OTHER -> RegWrite(IntV(o.val))

\* ----------------------------------------------------------- control flow
\* the history counter of block selections stops counting at MaxVisits
Visit == IF visits < MaxVisits THEN visits + 1 ELSE visits

\* vcode_select_block(b); eval_vcode(state): the nested activation runs block
\* b from its first op with the same eval_state_t, and the op that selected b
\* ends its own block, so the activation of the frame goes on in b.  No
\* count of the blocks selected is kept, and the nesting of the C stack is
\* not bounded here.
SelectBlock(b) == /\ Change("running", [stack EXCEPT ![Len(stack)].pc = 0], ctxs, mem, diags)
  /\ vsel' = [vsel EXCEPT !.block = b]
  /\ visits' = Visit
  /\ UNCHANGED <<present, errors, allocs>>

op_jump == Dispatch("jump") /\ SelectBlock(CurOp.tgt[1])

op_cond == Dispatch("cond") /\ SelectBlock(CurOp.tgt[IF Arg(1).v # 0 THEN 1 ELSE 2])

RECURSIVE CaseTarget(_)
\* the loop of eval_op_case from choice i: the target block, or the way
\* eval_value_cmp ended the process
CaseTarget(i) == IF i > Len(CurOp.args) THEN [err |-> "none", val |-> CurOp.tgt[1]]
  ELSE LET c == eval_value_cmp(Arg(1), Arg(i))
       IN IF c.err # "none" THEN c ELSE IF c.val = 0 THEN [err |-> "none", val |-> CurOp.tgt[i]] ELSE CaseTarget(i + 1)

op_case == /\ Dispatch("case")
  /\ LET t == CaseTarget(2)
     IN CASE t.err = "abort" -> Abort
          [] t.err = "fatal" -> Fatal("none", "invalid value type")
          [] OTHER -> SelectBlock(t.val)

\* ------------------------------------------------------------------ bounds
\* op_bounds that reports without counting (a faulty variant; C11 must not
\* hold of it)
op_bounds_nocount == /\ Dispatch("bounds")
  /\ LET reg == Arg(1)
         low == CurOp.ty.low
         high == CurOp.ty.high
         where == IF CurOp.sub = "array_to" THEN "to" ELSE "downto"
     IN CASE reg.kind = "Integer" ->
               IF low > high THEN Skip
               ELSE IF reg.v >= low /\ reg.v <= high THEN Skip
               ELSE IF "bounds" \notin Top.flags THEN Fail(<<>>)
               ELSE IF CurOp.sub \notin {"array_to", "array_downto"} THEN Fatal("none", "unhandled bounds kind")
               ELSE Fail(<<Diag("error", "bookmark", where), Diag("note", "fcall", "while evaluating call")>>)
          [] reg.kind = "Real" -> Skip
          [] OTHER -> Fatal("none", "invalid value type")

op_bounds == /\ Dispatch("bounds")
  /\ LET reg == Arg(1)
         low == CurOp.ty.low
         high == CurOp.ty.high
         where == IF CurOp.sub = "array_to" THEN "to" ELSE "downto"
     IN CASE reg.kind = "Integer" ->
               IF low > high THEN Skip
               ELSE IF reg.v >= low /\ reg.v <= high THEN Skip
               ELSE IF "bounds" \notin Top.flags THEN Fail(<<>>)
               ELSE IF CurOp.sub \notin {"array_to", "array_downto"} THEN Fatal("none", "unhandled bounds kind")
               ELSE /\ Change("running", [stack EXCEPT ![Len(stack)].failed = TRUE, ![Len(stack)].pc = @ + 1], ctxs, mem, diags \o <<Diag("error", "bookmark", where), Diag("note", "fcall", "while evaluating call")>>)
                    /\ errors' = errors + 1
                    /\ UNCHANGED <<vsel, present, allocs, visits>>
          [] reg.kind = "Real" -> Skip
          [] OTHER -> Fatal("none", "invalid value type")

op_dynamic_bounds == /\ Dispatch("dynamic_bounds")
  /\ LET reg == Arg(1)
         low == Arg(2)
         high == Arg(3)
     IN CASE reg.kind = "Integer" ->
               IF low.v > high.v THEN Skip
               ELSE IF reg.v < low.v \/ reg.v > high.v THEN Fail(<<>>)
               ELSE Skip
          [] reg.kind = "Real" -> Skip
          [] OTHER -> Fatal("none", "invalid value type")

op_index_check == /\ Dispatch("index_check")
  /\ LET low == Arg(1)
         high == Arg(2)
         min == IF Len(CurOp.args) = 2 THEN CurOp.ty.low ELSE Arg(3).v
         max == IF Len(CurOp.args) = 2 THEN CurOp.ty.high ELSE Arg(4).v
     IN IF high.v < low.v THEN Skip
        ELSE IF low.v < min THEN Fail(<<>>)
        ELSE IF high.v > max THEN Fail(<<>>)
        ELSE Skip

\* --------------------------------------------------------- assert and report
RECURSIVE CopyText(_, _, _)
\* the loop of eval_message that copies length characters from the cells at
\* a: the texts it can end with, or a memory fault
CopyText(a, i, n) == IF i >= n THEN {[err |-> "none", text |-> <<>>]}
  ELSE UNION {IF c = Segv THEN {[err |-> "segv", text |-> <<>>]}
              ELSE {IF t.err = "none" THEN [t EXCEPT !.text = <<c.v>> \o @] ELSE t : t \in CopyText(a, i + 1, n)} : c \in ReadCell(mem, a + SIZEOF_VALUE * i)}

\* eval_message: the diagnostic it issues with note_at, warn_at or error_at,
\* or the way it ends the process.  Without a text (length <= 0) it prints
\* "Assertion violation" (an empty text here).  A severity outside
\* levels[] selects fatal_at and reads past the array.
eval_message(text, length, severity, prefix) == IF text.kind # "Pointer" THEN {[err |-> "abort", diag |-> Diag("none", "none", "none")]}
  ELSE LET fn == CASE severity.v = SEVERITY_NOTE -> "note"
                   [] severity.v = SEVERITY_WARNING -> "warning"
                   [] severity.v \in {SEVERITY_ERROR, SEVERITY_FAILURE} -> "error"
                   [] OTHER -> "fatal"
       IN {IF c.err = "segv" THEN [err |-> "segv", diag |-> Diag("none", "none", "none")]
           ELSE [err |-> IF fn = "fatal" THEN "fatal" ELSE "none", diag |-> [Diag(fn, "bookmark", prefix) EXCEPT !.level = severity.v, !.text = c.text]] : c \in CopyText(text.v, 0, IF length.v > 0 THEN length.v ELSE 0)}
          \cup (IF fn = "fatal" THEN {[err |-> "segv", diag |-> Diag("none", "none", "none")]} ELSE {})

\* a handler that called eval_message with outcome o and then set failed to f
Messaged(o, f) == CASE o.err = "abort" -> Abort
  [] o.err = "segv" -> Crash
  [] o.err = "fatal" -> Effect("fatal", stack, ctxs, mem, Append(diags, o.diag))
  [] OTHER -> Effect("running", [stack EXCEPT ![Len(stack)].failed = f, ![Len(stack)].pc = @ + 1], ctxs, mem, Append(diags, o.diag))

\* op_assert that keeps failed as it was (a faulty variant; C12 must not hold
\* of it)
op_assert_nofail == /\ Dispatch("assert")
  /\ IF Arg(1).v # 0 THEN Skip
     ELSE IF "report" \in Top.flags THEN \E o \in eval_message(Arg(3), Arg(4), Arg(2), "Assertion") : Messaged(o, Top.failed)
     ELSE Skip

op_assert == /\ Dispatch("assert")
  /\ IF Arg(1).v # 0 THEN Skip
     ELSE IF "report" \in Top.flags THEN \E o \in eval_message(Arg(3), Arg(4), Arg(2), "Assertion") : Messaged(o, Arg(2).v >= SEVERITY_ERROR)
     ELSE Effect("running", [stack EXCEPT ![Len(stack)].failed = (Arg(2).v >= SEVERITY_ERROR), ![Len(stack)].pc = @ + 1], ctxs, mem, diags)

op_report == /\ Dispatch("report")
  /\ IF "report" \in Top.flags THEN \E o \in eval_message(Arg(2), Arg(3), Arg(1), "Report") : Messaged(o, Top.failed)
     ELSE Fail(<<>>)

\* ------------------------------------------------------------------ image
\* texts are sequences of character codes
RECURSIVE Digits(_)
\* "%d" of a number that is not negative
Digits(n) == IF n < 10 THEN <<48 + n>> ELSE Append(Digits(n \div 10), 48 + (n % 10))

\* "%"PRIi64
IntText(n) == IF n < 0 THEN <<45>> \o Digits(-n) ELSE Digits(n)

\* "%.*g" with DBL_DIG + 3 digits, of the reals that are a multiple of one
\* half (which a double holds exactly and prints with at most one decimal)
RealText(x) == (IF x < 0 THEN <<45>> ELSE <<>>) \o Digits(Abs(x) \div RealScale) \o (IF Abs(x) % RealScale = 0 THEN <<>> ELSE <<46, 53>>)

\* istr(tree_ident(type_enum_literal(type, i))) for the enumeration type of
\* the design: the character literal 'F' and an identifier of 33 letters
EnumText(i) == IF i = 0 THEN <<39, 70, 39>> ELSE [k \in 1..33 |-> 65]

\* istr(tree_ident(type_unit(type, 0))): FS
UnitText == <<70, 83>>

ImageKinds == {"integer", "enum", "real", "physical"}

\* the text snprintf is asked to format
ImageText(k, v) == CASE k = "integer" -> IntText(v.v)
  [] k = "enum" -> EnumText(v.v)
  [] k = "real" -> RealText(v.v)
  [] k = "physical" -> IntText(v.v) \o <<32>> \o UnitText

\* snprintf(buf, sizeof(buf), ...) stores at most 31 characters and a NUL in
\* buf[32] and returns the length of the whole text; the loop then copies
\* that many bytes from buf, those past its end being indeterminate
ImageCells(text) == {[i \in 1..Len(text) |-> IntV(IF i <= 31 THEN text[i] ELSE IF i = 32 THEN 0 ELSE g)] : g \in {0, 65}}

\* eval_op_image: the payload of the result register is set, its kind is not;
\* the cells of the text lie in the block just allocated, above the
\* descriptor
op_image == /\ Dispatch("image")
  /\ IF CurOp.sub \notin ImageKinds THEN Fail(<<Diag("error", "bookmark", "cannot use 'IMAGE with this type")>>)
     ELSE \E cells \in ImageCells(ImageText(CurOp.sub, Arg(1))) :
            LET len == Len(cells)
                a1 == eval_alloc(SIZEOF_UARRAY, AllocState(Top))
                a2 == eval_alloc(ToSize(SIZEOF_VALUE * len), a1)
                cx == SetReg(ctxs, Top.ctx, CurOp.res, [Reg(CurOp.res) EXCEPT !.v = a1.ptr])
                md == WriteDescr(mem, a1.ptr, Descr(1, a2.ptr, <<[left |-> 1, right |-> len, dir |-> RANGE_TO]>>))
                run == {a2.ptr + SIZEOF_VALUE * (i - 1) : i \in 1..len}
            IN IF a1.ptr = NULL THEN Allocated(a1, cx, mem)
               ELSE IF a2.ptr = NULL THEN Allocated(a2, cx, WriteDescr(mem, a1.ptr, Descr(-1, NULL, <<>>)))
               ELSE Allocated(a2, cx, [x \in DOMAIN md \cup run |-> IF x \in run THEN cells[(x - a2.ptr) \div SIZEOF_VALUE + 1] ELSE md[x]])

\* ------------------------------------------------------------------- fcall
\* lib_find / lib_get_ctx on the library and unit prefixes of the name of
\* function f: the unit is found, its vcode file can be opened, it is a
\* package whose body is found.  add4 is PACK's; lost names a function of a
\* package that was analysed without code; any other name has no library
\* prefix.
LibraryEntry(f) == CASE f = "add4" -> [found |-> TRUE, file |-> TRUE, body |-> TRUE]
  [] f = "lost" -> [found |-> TRUE, file |-> FALSE, body |-> FALSE]
  [] OTHER -> [found |-> FALSE, file |-> FALSE, body |-> FALSE]

\* lib_get_ctx / eval_load_vcode: the units that reading the vcode of the
\* unit of function f, and of its package body, registers
LibraryServes(f) == IF LibraryEntry(f).found /\ LibraryEntry(f).file THEN LibraryUnits ELSE {}

\* eval_load_vcode of one unit: the note under EVAL_VERBOSE and, when the
\* unit's vcode file cannot be opened, the warning under EVAL_WARN
eval_load_vcode(e, fl) == (IF "verbose" \in fl THEN <<Diag("note", "none", "loading vcode")>> ELSE <<>>)
  \o (IF e.file THEN <<>> ELSE EvalWarn(fl, "cannot load vcode"))

\* the diagnostics of the library lookup of eval_op_fcall for function f
LibraryLoad(f, fl) == IF ~LibraryEntry(f).found THEN <<>>
  ELSE eval_load_vcode(LibraryEntry(f), fl) \o (IF LibraryEntry(f).body THEN eval_load_vcode(LibraryEntry(f), fl) ELSE <<>>)

\* op_fcall that does not copy the parameters (a faulty variant; C27 must
\* not hold of it)
op_fcall_unbound == /\ Dispatch("fcall")
  /\ IF "fcall" \notin Top.flags THEN Fail(<<>>)
     ELSE LET f == CurOp.func
              loaded == IF f \in present THEN {} ELSE LibraryServes(f)
              notes == IF f \in present THEN <<>> ELSE LibraryLoad(f, Top.flags)
              u == UnitOf(f)
              nc == eval_new_context(u, AllocState(Top))
              nparams == Len(CurOp.args)
              context == nc.ctx
              caller == [Top EXCEPT !.halloc = nc.st.halloc, !.heap = nc.st.heap, !.failed = nc.st.failed, !.saved = vsel]
              new == Frame("callee", Len(ctxs) + 1, Top.flags \cup {"bounds"}, nc.st.heap, nc.st.halloc)
          IN IF f \notin present \cup loaded THEN Fail(notes \o EvalWarn(Top.flags, "function call prevents constant folding"))
             ELSE IF nc.fatal THEN Fatal("fcall", "cannot evaluate variables")
             ELSE /\ Change("running", Append([stack EXCEPT ![Len(stack)] = caller], new), Append(ctxs, context), mem, diags \o notes \o nc.st.diags)
                  /\ vsel' = [unit |-> f, block |-> 0]
                  /\ present' = present \cup loaded
                  /\ visits' = Visit
                  /\ allocs' = allocs \o nc.st.log
                  /\ UNCHANGED errors

\* eval_op_fcall up to its call of eval_vcode(&new)
op_fcall == /\ Dispatch("fcall")
  /\ IF "fcall" \notin Top.flags THEN Fail(<<>>)
     ELSE LET f == CurOp.func
              loaded == IF f \in present THEN {} ELSE LibraryServes(f)
              notes == IF f \in present THEN <<>> ELSE LibraryLoad(f, Top.flags)
              u == UnitOf(f)
              nc == eval_new_context(u, AllocState(Top))
              nparams == Len(CurOp.args)
              context == [nc.ctx EXCEPT !.regs = [r \in DOMAIN @ |-> IF r < nparams THEN Arg(r + 1) ELSE @[r]]]
              caller == [Top EXCEPT !.halloc = nc.st.halloc, !.heap = nc.st.heap, !.failed = nc.st.failed, !.saved = vsel]
              new == Frame("callee", Len(ctxs) + 1, Top.flags \cup {"bounds"}, nc.st.heap, nc.st.halloc)
          IN IF f \notin present \cup loaded THEN Fail(notes \o EvalWarn(Top.flags, "function call prevents constant folding"))
             ELSE IF nc.fatal THEN Fatal("fcall", "cannot evaluate variables")
             ELSE /\ Change("running", Append([stack EXCEPT ![Len(stack)] = caller], new), Append(ctxs, context), mem, diags \o notes \o nc.st.diags)
                  /\ vsel' = [unit |-> f, block |-> 0]
                  /\ present' = present \cup loaded
                  /\ visits' = Visit
                  /\ allocs' = allocs \o nc.st.log
                  /\ UNCHANGED errors

\* fcall_exit without vcode_state_restore (a faulty variant; C16 must not
\* hold of it)
fcall_exit_norestore == /\ phase = "running"
  /\ Len(stack) >= 2
  /\ Top.kind = "callee"
  /\ FrameDone(Top)
  /\ LET new == Top
         state == stack[Len(stack) - 1]
         op == UnitOf(state.saved.unit).blocks[state.saved.block + 1][state.pc + 1]
         val == ctxs[new.ctx].regs[new.result]
         back == [state EXCEPT !.heap = new.heap, !.halloc = new.halloc, !.failed = @ \/ new.failed, !.pc = @ + 1]
         st == [SubSeq(stack, 1, Len(stack) - 1) EXCEPT ![Len(stack) - 1] = back]
     IN /\ IF new.failed THEN Change("running", st, eval_free_context(ctxs, new.ctx), mem, diags)
           ELSE IF new.result = NO_RESULT THEN Change("abort", stack, ctxs, mem, diags)
           ELSE Change("running", st, eval_free_context(SetReg(ctxs, state.ctx, op.res, val), new.ctx), mem, diags)
        /\ UNCHANGED <<vsel, present, errors, allocs, visits>>

\* fcall_exit without the test of new.failed (a faulty variant; C25 must not
\* hold of it)
fcall_exit_nofail == /\ phase = "running"
  /\ Len(stack) >= 2
  /\ Top.kind = "callee"
  /\ FrameDone(Top)
  /\ LET new == Top
         state == stack[Len(stack) - 1]
         back == [state EXCEPT !.heap = new.heap, !.halloc = new.halloc, !.pc = @ + 1]
         st == [SubSeq(stack, 1, Len(stack) - 1) EXCEPT ![Len(stack) - 1] = back]
     IN /\ Change("running", st, eval_free_context(ctxs, new.ctx), mem, diags)
        /\ vsel' = state.saved
        /\ UNCHANGED <<present, errors, allocs, visits>>

\* eval_op_fcall after eval_vcode(&new) returns
fcall_exit == /\ phase = "running"
  /\ Len(stack) >= 2
  /\ Top.kind = "callee"
  /\ FrameDone(Top)
  /\ LET new == Top
         state == stack[Len(stack) - 1]
         op == UnitOf(state.saved.unit).blocks[state.saved.block + 1][state.pc + 1]
         val == ctxs[new.ctx].regs[new.result]
         back == [state EXCEPT !.heap = new.heap, !.halloc = new.halloc, !.failed = @ \/ new.failed, !.pc = @ + 1]
         st == [SubSeq(stack, 1, Len(stack) - 1) EXCEPT ![Len(stack) - 1] = back]
         note == IF "verbose" \in state.flags THEN <<Diag("note", "none", "returned")>> ELSE <<>>
     IN /\ IF new.failed THEN Change("running", st, eval_free_context(ctxs, new.ctx), mem, diags)
           ELSE IF new.result = NO_RESULT THEN Change("abort", stack, ctxs, mem, diags)
           ELSE Change("running", st, eval_free_context(SetReg(ctxs, state.ctx, op.res, val), new.ctx), mem, diags \o note)
        /\ vsel' = state.saved
        /\ UNCHANGED <<present, errors, allocs, visits>>

\* ------------------------------------------------------------ eval_get_var
RECURSIVE WalkVar(_, _, _, _)
\* the loop of eval_get_var from context c at depth d, as far as it goes
\* without building a parent context
WalkVar(cx, c, d, vd) == IF d <= vd THEN [found |-> TRUE, ctx |-> c, depth |-> d]
  ELSE IF cx[c].parent = 0 THEN [found |-> FALSE, ctx |-> c, depth |-> d]
  ELSE WalkVar(cx, cx[c].parent, d - 1, vd)

\* eval_op_load / eval_op_store / eval_op_index of the frame on top of st,
\* whose unit and block are sel, with eval_get_var at position w of its
\* loop: either the variable is reached and the handler completes, or a
\* parent context is built from vcode_unit_context() of sel's unit and its
\* block 0 is evaluated in a new activation
VarAccess(st, cx, dg, al, sel, w) == LET f == st[Len(st)]
      op == UnitOf(sel.unit).blocks[sel.block + 1][f.pc + 1]
      r == WalkVar(cx, w.ctx, w.depth, op.var.depth)
      slot == cx[r.ctx].vars[op.var.index]
      done == [st EXCEPT ![Len(st)].pc = @ + 1, ![Len(st)].walk = NoWalk]
      pu == UnitOf(sel.unit).context
      nc == eval_new_context(UnitOf(pu), AllocState(f))
      me == [f EXCEPT !.halloc = nc.st.halloc, !.heap = nc.st.heap, !.failed = nc.st.failed, !.saved = sel, !.walk = [ctx |-> r.ctx, depth |-> r.depth]]
      new == Frame("parent", Len(cx) + 1, f.flags \cup {"bounds"}, nc.st.heap, nc.st.halloc)
      Rest(v, n, a) == vsel' = v /\ visits' = n /\ allocs' = a /\ UNCHANGED <<present, errors>>
  IN IF r.found
     THEN CASE op.op = "load" -> Change("running", done, SetReg(cx, f.ctx, op.res, slot), mem, dg) /\ Rest(sel, visits, al)
            [] op.op = "store" -> Change("running", done, [cx EXCEPT ![r.ctx].vars[op.var.index] = cx[f.ctx].regs[op.args[1]]], mem, dg) /\ Rest(sel, visits, al)
            [] op.op = "index" -> IF slot.kind # "CArray" THEN Change("abort", st, cx, mem, dg) /\ Rest(sel, visits, al)
                                  ELSE Change("running", done, SetReg(cx, f.ctx, op.res, PtrV(slot.v)), mem, dg) /\ Rest(sel, visits, al)
     ELSE IF UnitOf(sel.unit).kind = "thunk" \/ UnitOf(pu).kind # "context" THEN Change("abort", st, cx, mem, dg) /\ Rest(sel, visits, al)
     ELSE IF nc.fatal THEN Change("fatal", st, cx, mem, Append(dg, Diag("fatal", "fcall", "cannot evaluate variables"))) /\ Rest(sel, visits, al)
     ELSE Change("running", Append([st EXCEPT ![Len(st)] = me], new), Append([cx EXCEPT ![r.ctx].parent = Len(cx) + 1], nc.ctx), mem, dg \o nc.st.diags) /\ Rest([unit |-> pu, block |-> 0], Visit, al \o nc.st.log)

\* GetVar without the test of vcode_var_extern (a faulty variant; C34 must
\* not hold of it)
GetVar_noextern == VarAccess(stack, ctxs, diags, allocs, vsel, [ctx |-> Top.ctx, depth |-> CurUnit.depth])

\* eval_get_var from its entry: an extern variable fails the evaluation
GetVar == IF CurOp.var.extern THEN Fail(<<>>)
  ELSE VarAccess(stack, ctxs, diags, allocs, vsel, [ctx |-> Top.ctx, depth |-> CurUnit.depth])

op_load == Dispatch("load") /\ GetVar

\* op_store that writes nothing (a faulty variant; C20 must not hold of it)
op_store_lost == Dispatch("store") /\ Skip

op_store == Dispatch("store") /\ GetVar

op_index == Dispatch("index") /\ GetVar

\* eval_get_var after eval_vcode(&new_state) of a parent context returns
getvar_exit == /\ phase = "running"
  /\ Len(stack) >= 2
  /\ Top.kind = "parent"
  /\ FrameDone(Top)
  /\ LET new == Top
         state == stack[Len(stack) - 1]
         back == [state EXCEPT !.heap = new.heap, !.halloc = new.halloc]
         st == [SubSeq(stack, 1, Len(stack) - 1) EXCEPT ![Len(stack) - 1] = back]
     IN IF new.failed
        THEN /\ Change("running", [st EXCEPT ![Len(st)].failed = TRUE, ![Len(st)].pc = @ + 1, ![Len(st)].walk = NoWalk], ctxs, mem, diags)
             /\ vsel' = state.saved
             /\ UNCHANGED <<present, errors, allocs, visits>>
        ELSE VarAccess(st, ctxs, diags, allocs, state.saved, state.walk)

Next == \/ eval_call
  \/ driver_next
  \/ eval_exit
  \/ op_comment
  \/ op_const
  \/ op_const_real
  \/ op_return
  \/ op_other
  \/ op_add
  \/ op_sub
  \/ op_mul
  \/ op_div
  \/ op_mod
  \/ op_rem
  \/ op_cmp
  \/ op_cast
  \/ op_const_array
  \/ op_wrap
  \/ op_unwrap
  \/ op_uarray_len
  \/ op_uarray_dir
  \/ op_uarray_left
  \/ op_uarray_right
  \/ op_alloca
  \/ op_load_indirect
  \/ op_store_indirect
  \/ op_memcmp
  \/ op_copy
  \/ op_jump
  \/ op_cond
  \/ op_case
  \/ op_bounds
  \/ op_dynamic_bounds
  \/ op_index_check
  \/ op_assert
  \/ op_report
  \/ op_image
  \/ op_fcall
  \/ fcall_exit
  \/ op_load
  \/ op_store
  \/ op_index
  \/ getvar_exit

Spec == Init /\ [][Next]_vars

\* eval is a sequential program: whenever it has a next step it takes it
FairSpec == Spec /\ WF_vars(Next)

\* ------------------------------------------------------ reference semantics
\* The semantics the specification measures eval against: the ops of a
\* single-block unit in index order, two's-complement integers of IntBits
\* bits, comparison of the integers themselves, calls executed on a fresh
\* register file, bounds enforced.  RefExec gives [def |-> FALSE] where the
\* reference execution raises an error or the unit uses an op outside this
\* scalar core.
RefNone == [def |-> FALSE, val |-> Invalid]

FloorMod(l, r) == IF r > 0 THEN l % r ELSE -((-l) % (-r))

RefCallable == {"add1", "add4", "chk"}

RefUnit(f) == CASE f = "add1" -> unit_add1 [] f = "add4" -> unit_add4 [] f = "chk" -> unit_chk

RECURSIVE RefExec(_, _, _)
RefExec(u, i, regs) == IF u.blocks = <<>> \/ Len(u.blocks) > 1 \/ i > Len(u.blocks[1]) THEN RefNone
  ELSE LET op == u.blocks[1][i]
           A(k) == regs[op.args[k]]
           Ints == A(1).kind = "Integer" /\ A(2).kind = "Integer"
           Put(v) == RefExec(u, i + 1, [regs EXCEPT ![op.res] = v])
       IN CASE op.op = "const" -> Put(IntV(op.val))
            [] op.op = "const_real" -> Put(RealV(op.val))
            [] op.op = "add" -> IF Ints THEN Put(IntV(Wrap64(A(1).v + A(2).v))) ELSE RefNone
            [] op.op = "sub" -> IF Ints THEN Put(IntV(Wrap64(A(1).v - A(2).v))) ELSE RefNone
            [] op.op = "mul" -> IF Ints THEN Put(IntV(Wrap64(A(1).v * A(2).v))) ELSE RefNone
            [] op.op = "div" -> IF Ints /\ A(2).v # 0 THEN Put(IntV(Wrap64(CDiv(A(1).v, A(2).v)))) ELSE RefNone
            [] op.op = "rem" -> IF Ints /\ A(2).v # 0 THEN Put(IntV(CRem(A(1).v, A(2).v))) ELSE RefNone
            [] op.op = "mod" -> IF Ints /\ A(2).v # 0 THEN Put(IntV(FloorMod(A(1).v, A(2).v))) ELSE RefNone
            [] op.op = "cmp" -> IF ~Ints THEN RefNone
                                ELSE Put(IntV(Bool(CASE op.sub = "eq" -> A(1).v = A(2).v
                                                     [] op.sub = "neq" -> A(1).v # A(2).v
                                                     [] op.sub = "lt" -> A(1).v < A(2).v
                                                     [] op.sub = "leq" -> A(1).v <= A(2).v
                                                     [] op.sub = "gt" -> A(1).v > A(2).v
                                                     [] op.sub = "geq" -> A(1).v >= A(2).v)))
            [] op.op = "bounds" -> IF A(1).kind = "Integer" /\ op.ty.low <= op.ty.high /\ (A(1).v < op.ty.low \/ A(1).v > op.ty.high) THEN RefNone ELSE RefExec(u, i + 1, regs)
            [] op.op = "fcall" -> IF op.func \notin RefCallable THEN RefNone
                                  ELSE LET cu == RefUnit(op.func)
                                           r == RefExec(cu, 1, [k \in 0..(cu.nregs - 1) |-> IF k < Len(op.args) THEN regs[op.args[k + 1]] ELSE Invalid])
                                       IN IF r.def THEN Put(r.val) ELSE RefNone
            [] op.op = "return" -> IF op.args = <<>> THEN RefNone ELSE [def |-> TRUE, val |-> A(1)]
            [] OTHER -> RefNone

\* the reference result of every call site
RefOf == [n \in Nodes |-> LET u == ThunkOf[n] IN RefExec(u, 1, [k \in 0..(u.nregs - 1) |-> Invalid])]

\* ------------------------------------------------------------------ claims
Literals == {"enum_lit", "int_lit", "real_lit"}

\* C1 (soundness): a literal that eval returns for a call site is the result
\* of executing its thunk under the reference semantics.
C1_Soundness == (phase = "returned" /\ ret.kind \in Literals /\ RefOf[node].def) => ret.val = RefOf[node].val.v

\* C1: eval has folded a comparison of two integers 2^(CIntBits-1) apart
C1_Witness == phase = "returned" /\ ret.kind \in Literals /\ node.fam = "cmp" /\ node.a = INT_MAX + 1 /\ node.sub = "gt"

\* C2: for a call site whose type is not scalar eval returns the node and
\* does nothing else: no warning, no lowering, no context, no allocation, no
\* block selection, and the error counter, the IR selection and the loaded
\* units are as before the call.
C2_NonScalarUntouched == (~node.scalar /\ phase # "idle") =>
  (/\ phase = "returned"
   /\ ret = NodeRet
   /\ diags = <<>>
   /\ ~lowered
   /\ ctxs = <<>> /\ stack = <<>> /\ allocs = <<>> /\ mem = NoMem /\ visits = 0
   /\ errors = pre.errors /\ vsel = pre.vsel /\ present = pre.present)

\* C2: a second call of eval, after one that moved the IR selection, on a
\* non-scalar call site that the pre-filter would warn about and that
\* lower_thunk would lower
C2_Witness == /\ phase = "returned" /\ ~node.scalar /\ node.lowers
  /\ node.tree.params = <<TAggregate>> /\ "warn" \in flags0
  /\ evals = 2 /\ pre.vsel # NoSel

\* C3: eval returns the node or a literal; the node whenever the pre-filter
\* rejects it, lower_thunk declines or the evaluation ended failed; a literal
\* only after an evaluation that ended with failed unset, and then an enum
\* literal for an Integer result of an enum-typed call, an integer literal
\* for any other Integer result, a real literal for a Real result.
C3_NodeOrLiteral == phase = "returned" =>
  (/\ ret.kind \in {"node"} \cup Literals
   /\ (((~eval_possible(node.tree, flags0).ok) \/ (~node.lowers) \/ (fin.ran /\ fin.failed)) => ret = NodeRet)
   /\ (ret.kind \in Literals =>
        (/\ fin.ran /\ ~fin.failed
         /\ ret.val = fin.val.v
         /\ fin.val.kind \in {"Integer", "Real"}
         /\ (fin.val.kind = "Real" => ret.kind = "real_lit")
         /\ (fin.val.kind = "Integer" => ret.kind = (IF node.enum THEN "enum_lit" ELSE "int_lit")))))

\* C3: an enum-typed call has been folded
C3_Witness == phase = "returned" /\ ret.kind = "enum_lit" /\ node.enum /\ fin.val.kind = "Integer"

\* C4: the high-water mark of every activation is within 0..EVAL_HEAP, and a
\* request of req bytes with water + req > EVAL_HEAP sets failed, returns
\* null and leaves the mark unchanged.
C4_HeapBounded == (\A i \in DOMAIN stack : (stack[i].halloc >= 0 /\ stack[i].halloc <= EVAL_HEAP))
  /\ (\A i \in DOMAIN allocs : (allocs[i].before + allocs[i].req > EVAL_HEAP => (allocs[i].failed /\ allocs[i].ptr = NULL /\ allocs[i].after = allocs[i].before)))

\* C4: an allocation has been refused
C4_Witness == \E i \in DOMAIN allocs : ~allocs[i].ok /\ allocs[i].before > 0

\* C5: the high-water mark never decreases during one call of eval, and no
\* two successful allocations return overlapping regions.
C5_AppendOnly == (\A i \in DOMAIN allocs : (allocs[i].after >= allocs[i].before))
  /\ (\A i \in DOMAIN allocs : (i > 1 => allocs[i].before >= allocs[i - 1].after))
  /\ (\A i, j \in DOMAIN allocs : ((i < j /\ allocs[i].ok /\ allocs[j].ok) => allocs[i].ptr + allocs[i].req <= allocs[j].ptr))

\* C5: three allocations, the second by alloca with a negative length
C5_Witness == Len(allocs) >= 3 /\ node.fam = "alloc" /\ node.b = -1

\* the root activation of a call of flip("1010") after its fcall op
FlipReturned == phase = "running" /\ Len(stack) = 1 /\ node.fam = "flip" /\ Top.pc >= 4 /\ ~Top.failed

\* the value_t at address a is allocated
Allocated1(a) == a >= HeapBase /\ a + SIZEOF_VALUE <= HeapBase + Top.halloc

\* the array flip returned: descriptor and cells allocated and as written
FlipArrayIntact == LET u == Reg(3)
  IN /\ u.kind = "UArray" /\ u.v \in DOMAIN mem /\ mem[u.v].kind = "Descr"
     /\ u.v >= HeapBase /\ u.v + SIZEOF_UARRAY <= HeapBase + Top.halloc
     /\ mem[u.v].v.ndims = 1 /\ mem[u.v].v.junk = {}
     /\ \A i \in 0..3 : LET c == mem[u.v].v.data + SIZEOF_VALUE * i
                        IN Allocated1(c) /\ c \in DOMAIN mem /\ mem[c] = IntV(i % 2)

\* C6: after the fcall op the array flip returned is still allocated and
\* holds "0101": its descriptor and its four cells lie below the high-water
\* mark with the contents the callee wrote, and the comparison with the
\* caller's array folds to its true outcome.
C6_CalleeArrayValid == /\ (FlipReturned => FlipArrayIntact)
  /\ ((phase = "returned" /\ node.fam = "flip" /\ ret.kind \in Literals) => ret.val = (IF node.a = 0 THEN 1 ELSE 0))
  /\ ((node.fam = "flip" /\ "fcall" \in flags0) => phase \notin {"crash", "abort", "fatal"})

\* C6: the caller has allocated again after flip returned
C6_Witness == FlipReturned /\ node.sub = "plain" /\ Top.pc >= 6 /\ Reg(4).kind = "Pointer"

PtrOK(a) == a >= HeapBase /\ a < HeapBase + Top.halloc

\* C7: every Pointer-tagged value and every uarray data pointer in a
\* register, a variable or a heap cell addresses an allocated cell of the
\* heap: never null, never outside [heap, heap + halloc).
C7_PointersInArena == phase = "running" =>
  (/\ \A c \in DOMAIN ctxs : ctxs[c].live =>
        (/\ \A r \in DOMAIN ctxs[c].regs : (ctxs[c].regs[r].kind = "Pointer" => PtrOK(ctxs[c].regs[r].v))
         /\ \A x \in DOMAIN ctxs[c].vars : (ctxs[c].vars[x].kind = "Pointer" => PtrOK(ctxs[c].vars[x].v)))
   /\ \A a \in DOMAIN mem : /\ (mem[a].kind = "Pointer" => PtrOK(mem[a].v))
                            /\ (mem[a].kind = "Descr" => PtrOK(mem[a].v.data)))

\* C7: the add op has moved a pointer
C7_Witness == phase = "running" /\ node.fam = "ptradd" /\ Top.pc = 5 /\ Reg(4).kind = "Pointer"

\* C8: every call of eval that starts evaluating comes to an end.
C8_Terminates == (phase = "running") ~> (phase # "running")

\* C8: a third block selection in a thunk that only jumps
C8_Witness == phase = "running" /\ node.fam = "spin" /\ visits >= MaxVisits

\* an integer div, mod or rem op is about to be dispatched
DivOp == Ready /\ CurOp.op \in {"div", "mod", "rem"} /\ Arg(1).kind = "Integer"

\* C9: an integer div, mod or rem whose divisor is 0 ends with a fatal
\* diagnostic at the call site, writes no register and leaves eval with no
\* literal to return; with a divisor other than 0 it issues no diagnostic.
C9_DivByZeroFatal == [][DivOp => IF Arg(2).v = 0
                                  THEN phase' = "fatal" /\ diags' = Append(diags, Diag("fatal", "fcall", "division by zero")) /\ ctxs' = ctxs /\ ret' = NoRet
                                  ELSE diags' = diags /\ phase' # "fatal"]_vars

\* C9: a rem by zero has ended the process
C9_Witness == phase = "fatal" /\ node.fam = "arith" /\ node.sub = "rem" /\ node.b = 0 /\ ret = NoRet

\* a bounds op on an Integer register is about to be dispatched
BoundsOp == Ready /\ CurOp.op = "bounds" /\ Arg(1).kind = "Integer"

\* ... whose value lies outside the non-null range of the op
OutOfBounds == CurOp.ty.low <= CurOp.ty.high /\ (Arg(1).v < CurOp.ty.low \/ Arg(1).v > CurOp.ty.high)

\* the error diagnostics at the bookmark that the step issues
NewErrors == {i \in DOMAIN diags' : i > Len(diags) /\ diags'[i].sev = "error"}

\* C10: a static bounds op on an out-of-range Integer sets failed; with the
\* bounds flag it issues exactly one error diagnostic, at the bookmark, and
\* adds one to the error counter, whatever its sub-kind; without the flag it
\* issues nothing and leaves the counter; in range it changes nothing.
C10_BoundsReport == [][BoundsOp => IF OutOfBounds
                                   THEN /\ stack'[Len(stack)].failed
                                        /\ IF "bounds" \in Top.flags
                                           THEN errors' = errors + 1 /\ Cardinality(NewErrors) = 1 /\ \A i \in NewErrors : diags'[i].at = "bookmark"
                                           ELSE errors' = errors /\ diags' = diags
                                   ELSE UNCHANGED <<ctxs, mem, diags, errors>> /\ stack'[Len(stack)].failed = Top.failed]_vars

\* C10: a bounds op of sub-kind other than array-to / array-downto has met
\* an out-of-range value under the bounds flag
C10_Witness == BoundsOp /\ OutOfBounds /\ "bounds" \in Top.flags /\ CurOp.sub = "enum"

\* the error diagnostics of eval_op_bounds among d
BoundsErrors(d) == {i \in DOMAIN d : d[i].sev = "error" /\ d[i].at = "bookmark" /\ d[i].msg \in {"to", "downto"}}

\* C11: the error counter is 0 before the first call of eval; during and
\* after a call it is its value at entry plus the number of bounds errors the
\* call has reported, which is at most one; it never decreases, and a step
\* changes it only by reporting a bounds error.
C11_ErrorCount == /\ [](/\ (evals = 0 => errors = 0)
                       /\ (phase # "idle" => (errors = pre.errors + Cardinality(BoundsErrors(diags)) /\ Cardinality(BoundsErrors(diags)) <= 1)))
  /\ [][errors' >= errors /\ (errors' # errors => (errors' = errors + 1 /\ Cardinality(BoundsErrors(diags')) = Cardinality(BoundsErrors(diags)) + 1))]_vars

\* C11: a second call of eval has reported a bounds error after the first
\* one did
C11_Witness == phase = "returned" /\ evals = 2 /\ pre.errors = 1 /\ errors = 2 /\ ret = NodeRet

\* an assert op is about to be dispatched
AssertOp == Ready /\ CurOp.op = "assert"

\* the step appends to the diagnostics one message of the given severity
\* level, issued at the statement by the function of that level
OneMessage(sv) == /\ Len(diags') = Len(diags) + 1 /\ SubSeq(diags', 1, Len(diags)) = diags
  /\ diags'[Len(diags')].level = sv /\ diags'[Len(diags')].at = "bookmark"
  /\ diags'[Len(diags')].sev = (CASE sv = SEVERITY_NOTE -> "note" [] sv = SEVERITY_WARNING -> "warning" [] OTHER -> "error")

\* C12: an assert op whose test is non-zero changes nothing; with a test of
\* 0 it emits one message of its severity if the report flag is set and none
\* otherwise, and it sets failed exactly when the severity is error or
\* failure.
C12_Assert == [][AssertOp => IF Arg(1).v # 0
                             THEN UNCHANGED <<ctxs, mem, diags, errors>> /\ phase' = "running" /\ stack'[Len(stack)].failed = Top.failed
                             ELSE /\ phase' = "running"
                                  /\ stack'[Len(stack)].failed = (Arg(2).v \in {SEVERITY_ERROR, SEVERITY_FAILURE})
                                  /\ IF "report" \in Top.flags THEN OneMessage(Arg(2).v) ELSE diags' = diags]_vars

\* C12: an assert of severity failure has failed without the report flag,
\* and eval has returned the call
C12_Witness == phase = "returned" /\ node.fam = "msg" /\ node.sub = "assert" /\ node.a = 0 /\ node.b = SEVERITY_FAILURE /\ "report" \notin flags0 /\ diags = <<>> /\ ret = NodeRet

\* a report op is about to be dispatched
ReportOp == Ready /\ CurOp.op = "report"

\* C13: without the report flag a report op sets failed and emits nothing;
\* with it the op emits exactly one message of its severity and sets failed
\* when that severity is error or failure.
C13_Report == [][ReportOp => /\ phase' = "running"
                             /\ IF "report" \in Top.flags
                                THEN OneMessage(Arg(1).v) /\ stack'[Len(stack)].failed = (Arg(1).v \in {SEVERITY_ERROR, SEVERITY_FAILURE})
                                ELSE diags' = diags /\ stack'[Len(stack)].failed]_vars

\* C13: a report of severity error has been issued under the report flag
C13_Witness == phase = "running" /\ node.fam = "msg" /\ node.sub = "report" /\ node.b = SEVERITY_ERROR /\ "report" \in Top.flags /\ Top.pc = 7 /\ diags # <<>>

RECURSIVE Accepted(_, _)
\* the trees the pre-filter is to accept under flags fl
Accepted(t, fl) == \/ t.kind = "literal"
  \/ (t.kind = "type_conv" /\ Accepted(t.params[1], fl))
  \/ (t.kind = "ref" /\ t.decl \in {"unit_decl", "enum_lit"})
  \/ (t.kind = "ref" /\ t.decl = "const_decl" /\ Accepted(t.params[1], fl))
  \/ (t.kind = "fcall" /\ ~t.impure /\ \A i \in DOMAIN t.params :
        (/\ ~(t.params[i].kind = "fcall" /\ "fold" \in fl /\ t.params[i].scalar)
         /\ ~(t.params[i].kind = "fcall" /\ "fcall" \notin fl)
         /\ Accepted(t.params[i], fl)))

\* C14: for a call of scalar type, eval goes on to lower_thunk exactly when
\* the call is a tree the pre-filter is to accept (as eval_possible itself
\* decides); a rejected call is returned as it is, with no context and no
\* block selection.
C14_PreFilter == (phase # "idle" /\ node.scalar) =>
  (/\ lowered = Accepted(node.tree, flags0)
   /\ eval_possible(node.tree, flags0).ok = Accepted(node.tree, flags0)
   /\ (~Accepted(node.tree, flags0) => (phase = "returned" /\ ret = NodeRet /\ stack = <<>> /\ ctxs = <<>> /\ visits = 0 /\ vsel = pre.vsel)))

\* C14: a call with a scalar call as its argument has been rejected under
\* the fold flag, though lower_thunk would lower it
C14_Witness == phase = "returned" /\ node.scalar /\ node.lowers /\ node.tree = TCall(FALSE, TRUE, <<TCall(FALSE, TRUE, <<TLiteral>>)>>) /\ flags0 = {"fcall", "fold"} /\ ret = NodeRet /\ ~lowered

\* an fcall op is about to run eval_op_fcall on a callee that is not present
\* and that the library does not provide
UnresolvedCall == Ready /\ CurOp.op = "fcall" /\ "fcall" \in Top.flags /\ CurOp.func \notin present \cup LibraryServes(CurOp.func)

\* the warnings that the step issues
NewWarnings == {i \in DOMAIN diags' : i > Len(diags) /\ diags'[i].sev = "warning"}

\* C15: an fcall op whose callee cannot be resolved sets failed, creates no
\* context and no activation, leaves registers, variables, heap contents
\* and high-water mark as they are, and issues exactly one warning, the one
\* about the function call, under the warn flag and none without it.
C15_Unresolved == [][UnresolvedCall => /\ phase' = "running"
                                       /\ Len(stack') = Len(stack) /\ stack'[Len(stack)].failed
                                       /\ stack'[Len(stack)].halloc = Top.halloc
                                       /\ ctxs' = ctxs /\ mem' = mem /\ allocs' = allocs /\ vsel' = vsel
                                       /\ Cardinality(NewWarnings) = (IF "warn" \in Top.flags THEN 1 ELSE 0)
                                       /\ \A i \in NewWarnings : diags'[i].msg = "function call prevents constant folding"]_vars

\* C15: a call of a function whose package the library holds without a
\* vcode file has failed under the warn flag
C15_Witness == phase = "running" /\ node.fam = "call" /\ node.sub = "lost" /\ "warn" \in Top.flags /\ Top.failed /\ Len(stack) = 1 /\ Top.pc = 2

RECURSIVE Log2Loop(_, _, _)
\* the loop of the source function log2: while c < x, r := r + 1, c := c * 2
Log2Loop(r, c, x) == IF c < x THEN Log2Loop(r + 1, c * 2, x) ELSE r

\* the source function log2
RefLog2(x) == IF x <= 1 THEN 1 ELSE Log2Loop(0, 1, x)

\* eval is folding (or has folded) a call of log2 with calls allowed
FoldsLog2 == node.fam = "call" /\ node.sub = "log2" /\ "fcall" \in flags0

\* C20: a call of log2(x) is folded to the integer literal the source
\* function yields (4 for x = 11): the evaluation ends, it never fails or
\* stops the process, and it runs in the one activation and context of the
\* callee, whose variables r and c go through the values of the loop.
C20_Log2 == /\ [](FoldsLog2 =>
                  (/\ phase \in {"running", "returned"}
                   /\ (phase = "returned" => ret = [kind |-> "int_lit", val |-> RefLog2(node.a)])
                   /\ (phase = "running" => (/\ Len(stack) <= 2 /\ Len(ctxs) <= 2 /\ \A i \in DOMAIN stack : ~stack[i].failed
                                              /\ (Len(stack) = 2 => (/\ Top.kind = "callee" /\ vsel.unit = "log2"
                                                                     /\ ctxs[2].vars[0].kind = "Integer" /\ ctxs[2].vars[1].kind = "Integer"
                                                                     /\ ctxs[2].vars[0].v <= RefLog2(node.a)
                                                                     /\ (ctxs[2].vars[1].v = 0 \/ ctxs[2].vars[1].v = 2 ^ ctxs[2].vars[0].v \/ ctxs[2].vars[1].v = 2 ^ (ctxs[2].vars[0].v - 1) \/ node.a <= 1)))))))
  /\ ((FoldsLog2 /\ phase = "running") ~> (phase = "returned"))

\* C20: log2(11) has been folded to 4
C20_Witness == phase = "returned" /\ FoldsLog2 /\ node.a = 11 /\ ret = [kind |-> "int_lit", val |-> 4] /\ visits >= MaxVisits

\* the kind of unit an activation of kind k evaluates
RunsKind(k) == CASE k = "root" -> "thunk" [] k = "callee" -> "function" [] k = "parent" -> "context"

\* the activations that are suspended before and after the step
Suspended == 1..((IF Len(stack') < Len(stack) THEN Len(stack') ELSE Len(stack)) - 1)

\* C16: an activation always runs in a unit of its own kind, at a position
\* of the selected block; a step that starts a nested evaluation (a call or
\* the construction of a parent context) records the selection of that
\* moment in the suspending activation, nothing changes the selection or
\* the position recorded in a suspended activation, the step that ends the
\* nested evaluation (result returned or callee failed) selects the
\* recorded unit and block again and resumes at the next op, and a call
\* that cannot be resolved leaves the selection as it is.
C16_SelectionRestored == /\ []((phase = "running" /\ stack # <<>>) =>
                              (/\ CurUnit.kind = RunsKind(Top.kind)
                               /\ vsel.block + 1 \in DOMAIN CurUnit.blocks
                               /\ Top.pc <= Len(CurOps)))
  /\ [][/\ (Len(stack') = Len(stack) + 1 /\ stack # <<>>) => (stack'[Len(stack)].saved = vsel /\ stack'[Len(stack)].pc = Top.pc)
        /\ (Len(stack') = Len(stack) - 1 /\ Len(stack') >= 1 /\ phase' = "running") => (vsel' = stack[Len(stack) - 1].saved /\ stack'[Len(stack')].pc = stack[Len(stack) - 1].pc + 1)
        /\ \A i \in Suspended : (stack'[i].saved = stack[i].saved /\ stack'[i].pc = stack[i].pc)
        /\ UnresolvedCall => (vsel' = vsel /\ stack'[Len(stack)].pc = Top.pc + 1)]_vars

\* C16: log2, whose loop selects its blocks 2 and 3 in turn, has returned to
\* a thunk that called it from its block 1
C16_Witness == phase = "running" /\ Len(stack) = 1 /\ FoldsLog2 /\ node.b = 1 /\ vsel = [unit |-> "thunk", block |-> 1] /\ Top.pc = 1 /\ Reg(1) = IntV(3)

\* eval is folding (or has folded) a rem or mod of two integers, the divisor
\* not 0
RemMod == node.fam = "arith" /\ node.sub \in {"rem", "mod"} /\ node.b # 0

\* a - (a/b)*b, / truncating toward zero
TruncRem(a, b) == a - CDiv(a, b) * b

\* what the op is to yield
RemModValue == IF node.sub = "rem" THEN TruncRem(node.a, node.b) ELSE Abs(TruncRem(node.a, node.b))

\* C17: for integers a and b, b not 0, the most negative a included, the rem
\* op yields a - (a/b)*b and the mod op |a % b|, so that (a/b)*b + rem(a, b)
\* = a: the op writes that value, the process goes on, and eval returns
\* the value as a literal.
C17_RemMod == (RemMod /\ phase # "idle") =>
  (/\ phase \in {"running", "returned"}
   /\ ((phase = "running" /\ Top.pc >= 3) => Reg(2) = IntV(RemModValue))
   /\ (phase = "returned" => ret = [kind |-> "int_lit", val |-> RemModValue])
   /\ ((phase = "returned" /\ node.sub = "rem") => CDiv(node.a, node.b) * node.b + ret.val = node.a))

\* C17: the rem of the most negative integer by -1 has been dispatched
C17_Witness == node.fam = "arith" /\ node.sub = "rem" /\ node.a = INT64_MIN /\ node.b = -1 /\ phase \in {"running", "crash"} /\ (phase = "running" => Top.pc >= 3)

\* eval is folding (or has folded) the attributes of an array (a to b) or
\* (a downto b)
DimCall == node.fam = "dim" /\ phase # "idle"

\* the length of the array of the call
DimLength == IF node.sub = "to" THEN node.b - node.a + 1 ELSE node.a - node.b + 1

\* C18: for a UArray wrapped with dimension (L, R, dir), uarray_len yields
\* max(0, R - L + 1) for an ascending and max(0, L - R + 1) for a descending
\* range, and uarray_left, uarray_right and uarray_dir yield L, R and dir.
C18_UarrayDim == DimCall =>
  (/\ phase \in {"running", "returned"}
   /\ (phase = "running" =>
         (/\ (Top.pc >= 6 => Reg(5) = IntV(Max(DimLength, 0)))
          /\ (Top.pc >= 7 => Reg(6) = IntV(node.a))
          /\ (Top.pc >= 8 => Reg(7) = IntV(node.b))
          /\ (Top.pc >= 9 => Reg(8) = IntV(IF node.sub = "to" THEN RANGE_TO ELSE RANGE_DOWNTO))))
   /\ (phase = "returned" => ret = [kind |-> "int_lit", val |-> Max(DimLength, 0)]))

\* C18: the length of an array (-2 to INT64_MAX) has been asked for
C18_Witness == DimCall /\ node.sub = "to" /\ node.a = -2 /\ node.b = INT64_MAX /\ phase \in {"running", "crash"} /\ (phase = "running" => Top.pc >= 6)

\* a wrap op on a Pointer is about to be dispatched
WrapOp == Ready /\ CurOp.op = "wrap" /\ Arg(1).kind = "Pointer"

\* the number of dimensions of the wrap op
WrapDims == (Len(CurOp.args) - 1) \div 3

\* the step leaves in the result register a UArray whose descriptor has the
\* op's dimensions in argument order and its source pointer as data
Wrapped == LET u == ctxs'[Top.ctx].regs[CurOp.res]
  IN /\ u.kind = "UArray" /\ u.v \in DOMAIN mem' /\ mem'[u.v].kind = "Descr"
     /\ mem'[u.v].v.ndims = WrapDims /\ mem'[u.v].v.data = Arg(1).v /\ mem'[u.v].v.junk = {}
     /\ Len(mem'[u.v].v.dim) = WrapDims
     /\ \A i \in 1..WrapDims : mem'[u.v].v.dim[i] = [left |-> Arg(3 * i - 1).v, right |-> Arg(3 * i).v, dir |-> Arg(3 * i + 1).v]

\* the step sets failed and issues the warning about the dimensions under
\* the warn flag, and nothing without it
TooManyDims == /\ stack'[Len(stack)].failed
  /\ diags' = diags \o (IF "warn" \in Top.flags THEN <<Diag("warning", "fcall", "dimensional array prevents constant folding")>> ELSE <<>>)

\* C19 as stated: a wrap of more than MAX_DIMS dimensions sets failed and
\* warns about the dimensions under warn; a wrap of 1 to MAX_DIMS dimensions
\* yields the UArray of its arguments.
C19_Wrap == [][WrapOp => /\ phase' = "running"
                         /\ (WrapDims > MAX_DIMS => TooManyDims)
                         /\ (WrapDims \in 1..MAX_DIMS => Wrapped)]_vars

\* the descriptor of the wrap op fits below the end of the heap
DescrFits == ToSize(Top.halloc + SIZEOF_UARRAY) <= EVAL_HEAP

\* C19 amended: that holds when the descriptor can be allocated; when it
\* cannot, the wrap sets failed, issues the heap exhaustion warning under
\* warn, and leaves a UArray register with a null descriptor, whatever the
\* number of dimensions.
C19_WrapAllocated == [][WrapOp => /\ phase' = "running"
                                  /\ IF DescrFits
                                     THEN /\ (WrapDims > MAX_DIMS => TooManyDims)
                                          /\ (WrapDims \in 1..MAX_DIMS => (Wrapped /\ stack'[Len(stack)].failed = Top.failed /\ diags' = diags))
                                     ELSE /\ stack'[Len(stack)].failed
                                          /\ ctxs'[Top.ctx].regs[CurOp.res] = UArrV(NULL)
                                          /\ mem' = mem
                                          /\ diags' = diags \o (IF "warn" \in Top.flags THEN <<Diag("warning", "fcall", "heap exhaustion")>> ELSE <<>>)]_vars

\* C19: a wrap of five dimensions has failed with its warning, the
\* descriptor allocated
C19_Witness == phase = "running" /\ node.fam = "wrap" /\ node.a = MAX_DIMS + 1 /\ node.b = 1 /\ Top.pc = 7 /\ Top.failed /\ "warn" \in Top.flags /\ Reg(6).kind = "UArray" /\ Reg(6).v # NULL

\* a case op on Integer registers is about to be dispatched
CaseOp == Ready /\ CurOp.op = "case" /\ \A i \in DOMAIN CurOp.args : Arg(i).kind = "Integer"

\* the choices of the case op that equal the value tested
Matches == {i \in 2..Len(CurOp.args) : Arg(i).v = Arg(1).v}

\* the target paired with the first of them, the default without one
FirstMatch == IF Matches = {} THEN CurOp.tgt[1] ELSE CurOp.tgt[CHOOSE i \in Matches : \A j \in Matches : i <= j]

\* case1 as the source defines it
RefCase1(x) == IF x = 1 THEN 2 ELSE IF x = 2 THEN 3 ELSE 5

\* C21: a case op selects the target of the first choice equal to the value
\* tested and the default target when none is; a call case1(x) evaluated
\* with the fcall flag returns 2 for 1, 3 for 2 and 5 otherwise.
C21_Case == /\ [][CaseOp => (phase' = "running" /\ vsel' = [vsel EXCEPT !.block = FirstMatch])]_vars
  /\ [](phase = "returned" /\ node.fam = "call" /\ node.sub = "case1" /\ "fcall" \in flags0 => ret = [kind |-> "int_lit", val |-> RefCase1(node.a)])

\* the calls of case1 alone
C21_Case1Calls == phase = "returned" /\ node.fam = "call" /\ node.sub = "case1" /\ "fcall" \in flags0 => ret = [kind |-> "int_lit", val |-> RefCase1(node.a)]

\* C21: a value that is neither 1 nor 2 has been taken for the choice 1
C21_Witness == phase = "running" /\ node.fam = "case" /\ node.a \notin {1, 2} /\ vsel = [unit |-> "thunk", block |-> 1]

\* an op the interpreter does not implement is about to be dispatched
UnknownOp == Ready /\ CurOp.op = "other"

\* eval_vcode has returned to eval without failing, and the result register
\* is neither Integer nor Real
BadResult == /\ phase = "running" /\ Len(stack) = 1 /\ FrameDone(Top) /\ ~Top.failed /\ Top.result # NO_RESULT
  /\ ctxs[Top.ctx].regs[Top.result].kind \notin {"Integer", "Real"}

\* C24: an op the interpreter does not implement fails the fold and the
\* process goes on; a result that is neither Integer nor Real makes eval
\* return the call it was given.
C24_GracefulAbort == [][/\ (UnknownOp => (phase' = "running" /\ stack'[Len(stack)].failed))
                        /\ (BadResult => (phase' = "returned" /\ ret' = NodeRet))]_vars

\* C24: the process has ended on an op the interpreter does not implement
C24_Witness == phase = "fatal" /\ diags # <<>> /\ diags[Len(diags)].msg = "cannot evaluate vcode op"

\* the driver has repeated a call of eval, with flags that do not contain
\* report
Repeated == prev.set /\ evals = MaxEvals /\ phase # "idle" /\ "report" \notin flags0

\* C22: for flags without report, a call of eval repeated on the same node
\* with the same flags returns what the first call returned.
C22_Idempotent == Repeated => (phase \in {"running", "returned"} /\ (phase = "returned" => ret = prev.ret))

\* C22: a repeated call that reads a cell it never wrote has returned a
\* literal of another value than the first call
C22_Witness == Repeated /\ phase = "returned" /\ node.fam = "ptradd" /\ ret.kind = "int_lit" /\ prev.ret.kind = "int_lit" /\ ret.val # prev.ret.val

\* C22 for the calls that read no cell they did not write and overflow no
\* arithmetic
C22_Deterministic == (Repeated /\ node.fam \notin {"arith", "ptradd", "flip", "dim", "alloc"}) => (phase \in {"running", "returned"} /\ (phase = "returned" => ret = prev.ret))

\* the flags NVC_EVAL_VERBOSE stands for, added to f
VerboseFlags(f) == f \cup {"verbose", "warn", "bounds"}

\* C23: with NVC_EVAL_VERBOSE set, a call eval(n, f) is in the state after
\* its entry in which eval(n, f plus verbose, warn and bounds) is without
\* the variable: the same diagnostics of the pre-filter when it rejects the
\* call, the same note and the same flags of the evaluation otherwise.
C23_EnvVerbose == [][(phase = "idle" /\ phase' # "idle" /\ env) =>
                       (/\ (stack' # <<>> => stack'[1].flags = VerboseFlags(flags0'))
                        /\ (phase' = "returned" => diags' = eval_filter(node', VerboseFlags(flags0')).diags)
                        /\ (phase' = "running" => diags' = <<Diag("note", "fcall", "evaluate thunk")>>))]_vars

\* C23: with the variable set and without the warn flag, the pre-filter has
\* rejected a call silently that it rejects with a warning under warn
C23_Witness == /\ env /\ phase = "returned" /\ ~lowered /\ node.scalar /\ "warn" \notin flags0 /\ diags = <<>>
  /\ eval_filter(node, VerboseFlags(flags0)).diags # <<>>

\* an evaluation frame is on top of the stack with failed set
TopFailed == phase = "running" /\ stack # <<>> /\ Top.failed

\* C25: the failed flag of a frame is never cleared; a frame whose failed
\* flag is set dispatches no further op, its activation ends; and when the
\* activation of a callee or of a parent context ends with failed set, the
\* frame it returns to has failed set.
C25_FailedSticky == [][/\ (phase' = "running" => \A i \in 1..Len(stack) : (i <= Len(stack') /\ stack[i].failed) => stack'[i].failed)
                       /\ (TopFailed => (phase' # "running" \/ Len(stack') < Len(stack)))
                       /\ ((TopFailed /\ phase' = "running" /\ Len(stack') < Len(stack)) => stack'[Len(stack')].failed)]_vars

\* C25: a callee has ended with failed set and its caller has failed set
C25_Witness == /\ phase = "running" /\ Len(stack) = 1 /\ Top.failed /\ node.fam = "call" /\ node.sub = "chk" /\ node.a = 5
  /\ Top.pc = 2 /\ "fcall" \in Top.flags

\* eval_alloc has refused a request of the current call of eval
Exhausted == \E i \in DOMAIN allocs : ~allocs[i].ok

\* C26: once an allocation has failed for heap exhaustion, no further op is
\* dispatched, in the frame that asked for it or in the callee it was made
\* for, and the process does not fault.
C26_AbortOnExhaustion == Exhausted => (phase \in {"running", "returned"} /\ ~Ready)

\* C26: flip is running its ops with the null storage that the failed
\* allocation of its variable left
C26_Witness == /\ Exhausted /\ phase = "running" /\ Len(stack) = 2 /\ node.fam = "full" /\ node.b = 250
  /\ stack[1].failed /\ ~Top.failed /\ Top.pc >= 1 /\ ctxs[Top.ctx].vars[0] = CArrV(NULL)

\* the step is an fcall op that starts the evaluation of its callee
FcallStarts == Ready /\ CurOp.op = "fcall" /\ Len(stack') = Len(stack) + 1 /\ phase' = "running"

\* the value a variable of type t has in a new context
FreshVar(t, v) == CASE t.kind = "int" -> v = IntV(0)
  [] t.kind = "real" -> v = RealV(0)
  [] t.kind = "carray" -> v.kind = "CArray"
  [] OTHER -> v = UArrV(NULL)

\* the evaluation of a callee has ended without failure, with a result
FcallReturns == phase = "running" /\ Len(stack) >= 2 /\ Top.kind = "callee" /\ FrameDone(Top) /\ ~Top.failed /\ Top.result # NO_RESULT

\* C27: an fcall op that starts its callee gives it a new context whose
\* registers 0..N-1 hold the argument registers in order, the others unset,
\* and whose variables are initialised; the registers and variables of the
\* suspended callers do not change while the callee runs; and the return of
\* the callee writes the register its return op named into the result
\* register of the fcall op, changes no other register and no variable of
\* the caller, and resumes the caller at its next op.
C27_Fcall == [][/\ (FcallStarts =>
                     LET c == ctxs'[stack'[Len(stack')].ctx]
                         u == UnitOf(CurOp.func)
                     IN /\ stack'[Len(stack')].ctx \notin DOMAIN ctxs
                        /\ c.parent = 0
                        /\ DOMAIN c.regs = 0..(u.nregs - 1)
                        /\ (\A r \in DOMAIN c.regs : c.regs[r] = IF r < Len(CurOp.args) THEN Arg(r + 1) ELSE Invalid)
                        /\ DOMAIN c.vars = 0..(Len(u.vars) - 1)
                        /\ (\A i \in DOMAIN c.vars : FreshVar(u.vars[i + 1], c.vars[i]))
                        /\ ctxs'[Top.ctx] = ctxs[Top.ctx])
                /\ (phase' = "running" => \A i \in Suspended : (ctxs'[stack[i].ctx].regs = ctxs[stack[i].ctx].regs /\ ctxs'[stack[i].ctx].vars = ctxs[stack[i].ctx].vars))
                /\ (FcallReturns =>
                     LET state == stack[Len(stack) - 1]
                         op == UnitOf(state.saved.unit).blocks[state.saved.block + 1][state.pc + 1]
                     IN /\ phase' = "running"
                        /\ Len(stack') = Len(stack) - 1
                        /\ stack'[Len(stack')].pc = state.pc + 1
                        /\ ctxs'[state.ctx].regs = [ctxs[state.ctx].regs EXCEPT ![op.res] = ctxs[Top.ctx].regs[Top.result]]
                        /\ ctxs'[state.ctx].vars = ctxs[state.ctx].vars)]_vars

\* C27: add1(5) has returned 6 into the result register of the call
C27_Witness == /\ phase = "running" /\ Len(stack) = 1 /\ node.fam = "call" /\ node.sub = "add1" /\ node.a = 5 /\ ~Top.failed
  /\ Top.pc = 2 /\ Reg(0) = IntV(5) /\ Reg(1) = IntV(6)

\* a cmp op on two Integer registers is about to be dispatched
CmpOp == Ready /\ CurOp.op = "cmp" /\ CurOp.sub \in CmpKinds /\ Arg(1).kind = "Integer" /\ Arg(2).kind = "Integer"

\* the relation a cmp op of kind k stands for
Rel(k, a, b) == CASE k = "eq" -> a = b [] k = "neq" -> a # b [] k = "lt" -> a < b [] k = "leq" -> a <= b [] k = "gt" -> a > b [] k = "geq" -> a >= b

\* the cells of the two arrays of a memcmp op
MemcmpCells == {Arg(1).v + SIZEOF_VALUE * i : i \in 0..(Arg(3).v - 1)} \cup {Arg(2).v + SIZEOF_VALUE * i : i \in 0..(Arg(3).v - 1)}

\* a memcmp op on two arrays of Integer cells, all written, is about to be
\* dispatched
MemcmpOp == /\ Ready /\ CurOp.op = "memcmp" /\ Arg(1).kind = "Pointer" /\ Arg(2).kind = "Pointer" /\ Arg(3).kind = "Integer"
  /\ \A a \in MemcmpCells : (a \in DOMAIN mem /\ mem[a].kind = "Integer")

\* C28: cmp on two integers yields 1 when the relation of its kind holds
\* between them and 0 otherwise; memcmp yields 1 when all n pairs of cells
\* are equal and 0 otherwise; case goes to the target of the first choice
\* equal to the value tested, to the default without one.
C28_Compare == [][/\ (CmpOp => (phase' = "running" /\ ctxs'[Top.ctx].regs[CurOp.res] = IntV(Bool(Rel(CurOp.sub, Arg(1).v, Arg(2).v)))))
                  /\ (MemcmpOp => (phase' = "running" /\ ctxs'[Top.ctx].regs[CurOp.res] = IntV(Bool(\A i \in 0..(Arg(3).v - 1) : mem[Arg(1).v + SIZEOF_VALUE * i] = mem[Arg(2).v + SIZEOF_VALUE * i]))))
                  /\ (CaseOp => (phase' = "running" /\ vsel'.block = FirstMatch))]_vars

\* C28: 2^31 > 0 has been evaluated to 0
C28_Witness == phase = "running" /\ node.fam = "cmp" /\ node.sub = "gt" /\ node.a = INT_MAX + 1 /\ node.b = 0 /\ Top.pc = 3 /\ Reg(2) = IntV(0)

\* C28: two arrays whose cells differ by 2^32 have been found equal
C28_MemcmpEqual == phase = "running" /\ node.fam = "memcmp" /\ node.a = 2 * (INT_MAX + 1) /\ node.b = 0 /\ Top.pc = 6 /\ Reg(5) = IntV(1)

\* C28 for the operand pairs whose difference fits an int
C28_SmallDifference == [][(CmpOp /\ Arg(1).v - Arg(2).v \in INT_MIN..INT_MAX) => (phase' = "running" /\ ctxs'[Top.ctx].regs[CurOp.res] = IntV(Bool(Rel(CurOp.sub, Arg(1).v, Arg(2).v))))]_vars

\* a dynamic bounds op on an Integer outside the non-null range of its
\* argument registers is about to be dispatched
DynamicViolation == /\ Ready /\ CurOp.op = "dynamic_bounds" /\ Arg(1).kind = "Integer"
  /\ Arg(2).v <= Arg(3).v /\ (Arg(1).v < Arg(2).v \/ Arg(1).v > Arg(3).v)

\* the range an index check op checks against
IndexRange == IF Len(CurOp.args) = 2 THEN [min |-> CurOp.ty.low, max |-> CurOp.ty.high] ELSE [min |-> Arg(3).v, max |-> Arg(4).v]

\* an index check op on a non-null range not contained in that range is
\* about to be dispatched
IndexViolation == /\ Ready /\ CurOp.op = "index_check"
  /\ Arg(1).v <= Arg(2).v /\ (Arg(1).v < IndexRange.min \/ Arg(2).v > IndexRange.max)

\* C29: a dynamic bounds violation and an index check violation set failed;
\* with the bounds flag they issue an error diagnostic and add one to the
\* error counter, without it they issue nothing and leave the counter.
C29_DynamicReport == [][(DynamicViolation \/ IndexViolation) =>
                          (/\ phase' = "running"
                           /\ stack'[Len(stack)].failed
                           /\ IF "bounds" \in Top.flags
                              THEN errors' = errors + 1 /\ NewErrors # {}
                              ELSE errors' = errors /\ diags' = diags)]_vars

\* C29 without the report: the violation sets failed
C29_Silent == [][(DynamicViolation \/ IndexViolation) => (phase' = "running" /\ stack'[Len(stack)].failed /\ errors' = errors /\ diags' = diags)]_vars

\* C29: a dynamic bounds violation under the bounds flag has set failed,
\* and neither an error nor a count has been added
C29_Witness == /\ phase = "running" /\ node.fam = "dynamic" /\ node.a = 9 /\ node.b = 7 /\ "bounds" \in Top.flags /\ Top.failed /\ Top.pc = 4
  /\ errors = pre.errors /\ \A i \in DOMAIN diags : diags[i].sev # "error"

\* an assert op whose test is 0 and whose severity is note or warning is
\* about to be dispatched
MildAssertFails == AssertOp /\ Arg(1).v = 0 /\ Arg(2).v \in {SEVERITY_NOTE, SEVERITY_WARNING}

\* C30: a failed assertion of severity note or warning sets failed, and eval
\* returns the call it was given.
C30_MildAssert == /\ [][MildAssertFails => (phase' = "running" /\ stack'[Len(stack)].failed)]_vars
  /\ []((phase = "returned" /\ node.fam = "msg" /\ node.sub = "assert" /\ node.a = 0 /\ node.b \in {SEVERITY_NOTE, SEVERITY_WARNING}) => ret = NodeRet)

\* C30: a call whose assertion of severity note failed has been folded to a
\* literal, and no message was issued
C30_Witness == /\ phase = "returned" /\ node.fam = "msg" /\ node.sub = "assert" /\ node.a = 0 /\ node.b = SEVERITY_NOTE
  /\ "report" \notin flags0 /\ ret.kind = "int_lit" /\ \A i \in DOMAIN diags : diags[i].at # "bookmark"

\* ------------------------------------------------------------------ C31
\* a cast op to an integer, offset or real type is about to be dispatched
CastOp == Ready /\ CurOp.op = "cast" /\ CurOp.ty.kind \in {"int", "offset", "real"}

\* the number n/RealScale truncated toward zero
Trunc(n) == IF n >= 0 THEN n \div RealScale ELSE -((-n) \div RealScale)

\* what the cast of value v to a type of kind k is to leave in the result
\* register, for the sources the conversion is defined for
CastOf(v, k) == CASE k \in {"int", "offset"} /\ v.kind = "Integer" -> IntV(v.v)
  [] k \in {"int", "offset"} /\ v.kind = "Real" -> IntV(Trunc(v.v))
  [] k = "real" /\ v.kind = "Integer" -> RealV(v.v * RealScale)
  [] k = "real" /\ v.kind = "Real" -> RealV(v.v)

\* C31: a cast to an integer or offset type copies an Integer source and
\* truncates a Real source toward zero; a cast to a real type widens an
\* Integer source and copies a Real source; a cast of a source of any other
\* kind sets failed and writes no register.
C31_Cast == [][CastOp => IF Arg(1).kind \in {"Integer", "Real"}
                         THEN phase' = "running" /\ ~stack'[Len(stack)].failed /\ ctxs'[Top.ctx].regs[CurOp.res] = CastOf(Arg(1), CurOp.ty.kind)
                         ELSE phase' = "running" /\ stack'[Len(stack)].failed /\ ctxs' = ctxs]_vars

\* C31: the cast of a pointer to an integer type has been folded to the
\* literal 0
C31_Witness == /\ phase = "returned" /\ node.fam = "cast" /\ node.sub = "pointer" /\ node.a = 0
  /\ fin.ran /\ ~fin.failed /\ ret = [kind |-> "int_lit", val |-> 0]

\* C31 for the Integer sources and the Real sources whose integer part fits
\* an int64_t
C31_ScalarCast == [][(CastOp /\ Arg(1).kind \in {"Integer", "Real"} /\ Trunc(Arg(1).v) \in INT64_MIN..INT64_MAX)
                     => (phase' = "running" /\ ~stack'[Len(stack)].failed /\ ctxs'[Top.ctx].regs[CurOp.res] = CastOf(Arg(1), CurOp.ty.kind))]_vars

\* C31: 2.50 and -2.50 have been converted to 2 and -2
C31_Truncated == /\ phase = "returned" /\ node.fam = "cast" /\ node.a = 0
  /\ ((node.sub = "real" /\ ret.val = 2) \/ (node.sub = "realneg" /\ ret.val = -2))

\* ------------------------------------------------------------------ C32
\* variable slot v is as eval_new_context is to leave a variable of type t
InitialVar(t, v) == CASE t.kind = "int" -> v = IntV(0)
  [] t.kind = "real" -> v = RealV(0)
  [] t.kind = "uarray" -> v = UArrV(NULL)
  [] t.kind = "carray" -> v.kind = "CArray" /\ v.v >= HeapBase /\ v.v + SIZEOF_VALUE * t.size <= HeapBase + EVAL_HEAP
  [] OTHER -> FALSE

\* context c has the slots of unit u, its variables initialised
ContextOf(c, u) == /\ DOMAIN c.regs = 0..(u.nregs - 1)
  /\ DOMAIN c.vars = 0..(Len(u.vars) - 1)
  /\ \A i \in DOMAIN c.vars : InitialVar(u.vars[i + 1], c.vars[i])

\* a step that creates a context: eval past its early returns, an fcall
\* that finds its callee, a variable access that builds a parent
Creates == \/ (phase = "idle" /\ phase' \notin {"idle", "returned"})
  \/ (phase = "running" /\ Len(stack') > Len(stack))

\* C32: every context created (root, callee, parent) has one register slot
\* per register and one variable slot per variable of the unit selected at
\* that moment, each variable initialised from its type: Integer 0, Real
\* 0.0, UArray with an empty descriptor, CArray with a pointer to a run of
\* the declared number of elements in the arena.
C32_NewContext == [][Creates => (phase' = "running" /\ Len(ctxs') = Len(ctxs) + 1 /\ ContextOf(ctxs'[Len(ctxs')], code'[vsel'.unit]))]_vars

\* C32: flip runs in a context whose constrained-array variable is null
C32_Witness == /\ phase = "running" /\ Len(stack) = 2 /\ Top.kind = "callee" /\ vsel.unit = "flip"
  /\ ctxs[Top.ctx].live /\ ctxs[Top.ctx].vars[0] = CArrV(NULL) /\ Top.pc > 0

\* C32: eval has ended in a memory fault before the thunk ran, building the
\* root context of a thunk with a constrained-array variable
C32_RootFault == phase = "crash" /\ stack = <<>> /\ ctxs = <<>> /\ node.fam = "vars" /\ node.sub = "carray"

\* C32 for the callee and parent contexts whose allocations succeed, and
\* for the root contexts without a constrained-array variable
C32_WithRoom == [][(Creates /\ phase' = "running" /\ \A i \in DOMAIN allocs' : allocs'[i].ok) => (Len(ctxs') = Len(ctxs) + 1 /\ ContextOf(ctxs'[Len(ctxs')], code'[vsel'.unit]))]_vars

\* ------------------------------------------------------------------ C33
RECURSIVE Enclosing(_, _)
\* the unit of depth d that encloses unit u
Enclosing(u, d) == IF UnitOf(u).depth <= d THEN u ELSE Enclosing(UnitOf(u).context, d)

\* eval_get_var builds a missing ancestor: a context is added and an
\* activation for it is started
BuildsParent == phase = "running" /\ phase' = "running" /\ Len(ctxs') = Len(ctxs) + 1 /\ stack'[Len(stack')].kind = "parent"

\* the unit whose block 0 is to initialise the ancestor being built: the
\* one of the ancestor's depth that encloses the unit of the accessing frame
AncestorUnit == Enclosing(stack'[Len(stack') - 1].saved.unit, stack'[Len(stack') - 1].walk.depth - 1)

\* C33: a variable of depth d accessed in a unit of depth D > d resolves to
\* the slot of the ancestor context D - d links up; each missing ancestor
\* is built once per context, by running block 0 of the enclosing unit of
\* its depth, and is reused afterwards, so that a stored value is seen by
\* a later load: getk(x) = x + k, getg(x) = x + k, geti(x) = x + j and
\* setk(x) = x.
C33_OuterVars == /\ [][BuildsParent => vsel' = [unit |-> AncestorUnit, block |-> 0]]_vars
  /\ [][\A c \in DOMAIN ctxs : (phase = "running" /\ phase' = "running" /\ ctxs[c].parent # 0) => ctxs'[c].parent = ctxs[c].parent]_vars
  /\ []((phase = "returned" /\ node.fam = "call" /\ node.sub \in {"getk", "getg", "geti", "setk"} /\ "fcall" \in flags0)
          => ret = [kind |-> "int_lit", val |-> node.a + (CASE node.sub \in {"getk", "getg"} -> 40 [] node.sub = "geti" -> 7 [] node.sub = "setk" -> 0)])

\* C33: getg(2), which is 2 + k = 42, has been folded to 9, k having been
\* read from a second context of the nested scope
C33_Witness == /\ phase = "returned" /\ node.fam = "call" /\ node.sub = "getg" /\ node.a = 2
  /\ ret = [kind |-> "int_lit", val |-> 9] /\ Len(ctxs) = 4

\* C33 for accesses one level up (getk, geti, setk)
C33_OneLevel == /\ [][\A c \in DOMAIN ctxs : (phase = "running" /\ phase' = "running" /\ ctxs[c].parent # 0) => ctxs'[c].parent = ctxs[c].parent]_vars
  /\ [][(BuildsParent /\ Len(stack') = Len(stack) + 1 /\ UnitOf(vsel.unit).depth = CurOp.var.depth + 1) => vsel' = [unit |-> AncestorUnit, block |-> 0]]_vars
  /\ []((phase = "returned" /\ node.fam = "call" /\ node.sub \in {"getk", "geti", "setk"} /\ "fcall" \in flags0)
          => ret = [kind |-> "int_lit", val |-> node.a + (CASE node.sub = "getk" -> 40 [] node.sub = "geti" -> 7 [] node.sub = "setk" -> 0)])

\* ------------------------------------------------------------------ C34
\* a load, store or index of an extern variable is about to be dispatched
ExternAccess == Ready /\ CurOp.op \in {"load", "store", "index"} /\ CurOp.var.extern

\* the evaluation of a parent context built for a variable access has ended
\* with failed set
ParentFailed == phase = "running" /\ Len(stack) >= 2 /\ Top.kind = "parent" /\ FrameDone(Top) /\ Top.failed

\* the step changes no register and no variable of context c
SameSlots(c) == c \in DOMAIN ctxs' /\ ctxs'[c].regs = ctxs[c].regs /\ ctxs'[c].vars = ctxs[c].vars

\* C34: a load, store or index op whose variable is extern, or whose parent
\* context ends its evaluation failed, sets failed and changes no register
\* and no variable: not in the step that fails it, and not, for the
\* contexts of the suspended frames, while the parent context is evaluated.
C34_VarFailure == /\ [][ExternAccess => (phase' = "running" /\ stack'[Len(stack)].failed /\ \A c \in DOMAIN ctxs : SameSlots(c))]_vars
  /\ [][ParentFailed => (phase' = "running" /\ Len(stack') = Len(stack) - 1 /\ stack'[Len(stack')].failed /\ \A c \in DOMAIN ctxs : SameSlots(c))]_vars
  /\ [][\A i \in DOMAIN stack : (phase = "running" /\ \E j \in (i + 1)..Len(stack) : (stack[j].kind = "parent" /\ Len(stack') >= j)) => SameSlots(stack[i].ctx)]_vars

\* C34: useb has failed on its access to b, whose scope failed to
\* initialise; no register was written and b was not stored
C34_Witness == /\ phase = "running" /\ node.sub = "useb" /\ Len(stack) = 2 /\ Top.failed /\ Top.run
  /\ vsel.unit = "useb" /\ vsel.block \in {1, 2, 3} /\ Top.pc = 1
  /\ Len(ctxs) = 3 /\ ctxs[Top.ctx].regs[3] = Invalid /\ ctxs[3].vars[0] = IntV(0)

\* C34: a thunk has failed on its load of an extern variable
C34_ExternFailed == /\ phase = "running" /\ node.fam = "extern" /\ node.sub = "load"
  /\ Top.failed /\ Top.pc = 2 /\ Reg(0) = IntV(node.a) /\ ctxs[1].vars[0] = IntV(0)

\* ------------------------------------------------------------------ C35
\* an arena buffer has been allocated by the current call of eval
ArenaLive == \E i \in DOMAIN allocs : allocs[i].ok

RECURSIVE ChainLive(_, _)
\* context c and the first n contexts up its parent chain are live
ChainLive(c, n) == c = 0 \/ n = 0 \/ (ctxs[c].live /\ ChainLive(ctxs[c].parent, n - 1))

\* C35: every context created during a root evaluation is freed exactly
\* once, and the arena buffer is; after eval returns none of them remains
\* live, and none is read or written after it has been freed: a freed
\* context is not freed again and keeps its (cleared) fields, every
\* activation runs in a live context whose ancestors are live, and every
\* activation holds the pointer to the arena, which is what eval frees.
C35_AllFreed == /\ [](phase = "returned" => (stack = <<>> /\ mem = NoMem /\ \A c \in DOMAIN ctxs : (~ctxs[c].live /\ ctxs[c].frees = 1)))
  /\ [](\A c \in DOMAIN ctxs : (ctxs[c].frees <= 1 /\ (ctxs[c].live <=> ctxs[c].frees = 0)))
  /\ [](phase = "running" => \A i \in DOMAIN stack : (ChainLive(stack[i].ctx, Len(ctxs)) /\ (ArenaLive => Top.heap = HeapBase)))
  /\ [][\A c \in DOMAIN ctxs : (~ctxs[c].live /\ phase' # "idle") => (c \in DOMAIN ctxs' /\ ctxs'[c] = ctxs[c])]_vars

\* C35: getg has been folded; the root context, the context of getg and
\* the two contexts built for its enclosing scopes have been freed
C35_Witness == /\ phase = "returned" /\ node.sub = "getg" /\ ret.kind = "int_lit" /\ Len(ctxs) = 4
  /\ ctxs[2].parent = 3 /\ ctxs[3].parent = 4 /\ \A c \in DOMAIN ctxs : ctxs[c].frees = 1

\* C35: the fold of useb has failed in the evaluation of its enclosing
\* scope; the three contexts have been freed
C35_FailurePath == /\ phase = "returned" /\ node.sub = "useb" /\ ret = NodeRet /\ fin.failed /\ Len(ctxs) = 3
  /\ \A c \in DOMAIN ctxs : ctxs[c].frees = 1

\* C35: the fold of a call of flip, which allocated from the arena in the
\* thunk and in the callee, has returned
C35_ArenaFreed == phase = "returned" /\ node.fam = "flip" /\ Len(allocs) >= 3 /\ Len(ctxs) = 2 /\ mem = NoMem

\* ------------------------------------------------------------------ C36
\* an image op on a value of a supported type is about to be dispatched,
\* and the arena has room for the descriptor and the characters
ImageOp == /\ Ready /\ CurOp.op = "image" /\ CurOp.sub \in ImageKinds
  /\ Top.halloc + SIZEOF_UARRAY + SIZEOF_VALUE * Len(ImageText(CurOp.sub, Arg(1))) <= EVAL_HEAP

\* the arena holds at p the descriptor of a one-dimensional ascending array
\* 1..Len(text) whose cells are the characters of text
HoldsText(m, p, text) == /\ p \in DOMAIN m /\ m[p].kind = "Descr" /\ m[p].v.ndims = 1 /\ m[p].v.junk = {}
  /\ m[p].v.dim = <<[left |-> 1, right |-> Len(text), dir |-> RANGE_TO]>>
  /\ \A i \in 1..Len(text) : (m[p].v.data + SIZEOF_VALUE * (i - 1) \in DOMAIN m /\ m[m[p].v.data + SIZEOF_VALUE * (i - 1)] = IntV(text[i]))

\* C36: an image op on an integer, enum, real or physical value leaves its
\* result register tagged UArray, with a one-dimensional ascending
\* descriptor 1..length whose arena cells are the Integer-tagged character
\* codes of the formatted text; an unsupported type kind fails the fold
\* with an error.
C36_Image == [][/\ (ImageOp => (phase' = "running" /\ ctxs'[Top.ctx].regs[CurOp.res].kind = "UArray" /\ HoldsText(mem', ctxs'[Top.ctx].regs[CurOp.res].v, ImageText(CurOp.sub, Arg(1)))))
                /\ ((Ready /\ CurOp.op = "image" /\ CurOp.sub \notin ImageKinds) => (phase' = "running" /\ stack'[Len(stack)].failed /\ Len(diags') = Len(diags) + 1 /\ diags'[Len(diags')].sev = "error"))]_vars

\* C36: integer'image(-40) has been evaluated: the arena holds "-40", and
\* the result register, never written before, is not tagged UArray
C36_Witness == /\ phase = "running" /\ node.fam = "image" /\ node.sub = "integer" /\ node.a = -40 /\ Top.pc = 2
  /\ HoldsText(mem, Reg(1).v, <<45, 52, 48>>) /\ Reg(1).kind = "Invalid"

\* C36: the left bound of that result has been asked for, and the
\* evaluator has aborted on the tag
C36_Aborted == phase = "abort" /\ node.fam = "image" /\ node.b = 1 /\ Top.pc = 2

\* C36 without the tag of the register, for the texts that fit the buffer
\* of 32 bytes
C36_Text == [][/\ ((ImageOp /\ Len(ImageText(CurOp.sub, Arg(1))) < 32) => (phase' = "running" /\ HoldsText(mem', ctxs'[Top.ctx].regs[CurOp.res].v, ImageText(CurOp.sub, Arg(1)))))
               /\ ((Ready /\ CurOp.op = "image" /\ CurOp.sub \notin ImageKinds) => (phase' = "running" /\ stack'[Len(stack)].failed /\ Len(diags') = Len(diags) + 1 /\ diags'[Len(diags')].sev = "error"))]_vars

\* C36: the image of an enumeration literal of 33 letters has been built
\* with a NUL as its 32nd character
C36_Overrun == /\ phase = "running" /\ node.fam = "image" /\ node.sub = "enum" /\ node.a = 1 /\ Top.pc = 2
  /\ Reg(1).v \in DOMAIN mem /\ mem[mem[Reg(1).v].v.data + SIZEOF_VALUE * 31] = IntV(0)

\* ------------------------------------------------------------------ C37
\* the cells i < n of the run at a
Run(a, n) == {a + SIZEOF_VALUE * i : i \in 0..(n - 1)}

\* a copy op is about to be dispatched: its count is an integer n, its
\* runs lie in the arena and do not overlap, and the source is written
CopyOp == /\ Ready /\ CurOp.op = "copy" /\ Arg(3).kind = "Integer" /\ Arg(1).kind \notin {"Integer", "Real"} /\ Arg(2).kind \notin {"Integer", "Real"}
  /\ Run(Arg(1).v, Arg(3).v) \cap Run(Arg(2).v, Arg(3).v) = {}
  /\ (\A a \in Run(Arg(1).v, Arg(3).v) : InBuffer(a))
  /\ (\A a \in Run(Arg(2).v, Arg(3).v) : (a \in DOMAIN mem /\ mem[a].kind \notin {"Descr", "Clobbered"}))

\* the step writes the cells of the destination with those of the source
\* and no other cell
CopiesCells == /\ DOMAIN mem' = DOMAIN mem \cup Run(Arg(1).v, Arg(3).v)
  /\ (\A i \in 0..(Arg(3).v - 1) : mem'[Arg(1).v + SIZEOF_VALUE * i] = mem[Arg(2).v + SIZEOF_VALUE * i])
  /\ \A a \in DOMAIN mem \ Run(Arg(1).v, Arg(3).v) : mem'[a] = mem[a]

\* C37: a copy op with count n writes exactly the cells dst[0..n-1] with
\* the values src[0..n-1] and changes nothing else: every register, the
\* tags and payloads of its three argument registers included, and every
\* variable is unchanged.
C37_Copy == [][CopyOp => (phase' = "running" /\ CopiesCells /\ ctxs' = ctxs)]_vars

\* C37: dup has copied two elements into its local array, which it had
\* addressed by a load; the register that held the CArray value is now
\* tagged Pointer
C37_Witness == /\ phase = "running" /\ node.fam = "copy" /\ node.sub = "load" /\ node.a = 2 /\ vsel = [unit |-> "dup", block |-> 2] /\ Top.pc = 2
  /\ ctxs[Top.ctx].vars[0].kind = "CArray" /\ Reg(3) = PtrV(ctxs[Top.ctx].vars[0].v)
  /\ mem[Reg(3).v] = IntV(7) /\ mem[Reg(3).v + SIZEOF_VALUE] = IntV(9)

\* C37 but for the tags of the argument registers
C37_Cells == [][CopyOp => (phase' = "running" /\ CopiesCells /\ DOMAIN ctxs' = DOMAIN ctxs
                           /\ \A c \in DOMAIN ctxs : (ctxs'[c].vars = ctxs[c].vars /\ ctxs'[c].parent = ctxs[c].parent
                                                       /\ \A r \in DOMAIN ctxs[c].regs : (ctxs'[c].regs[r].v = ctxs[c].regs[r].v /\ ((c # Top.ctx \/ r \notin {CurOp.args[1], CurOp.args[2]}) => ctxs'[c].regs[r] = ctxs[c].regs[r]))))]_vars

\* C37 for the copy ops whose argument registers are tagged Pointer,
\* Pointer and Integer
C37_Tagged == [][(CopyOp /\ Arg(1).kind = "Pointer" /\ Arg(2).kind = "Pointer") => (phase' = "running" /\ CopiesCells /\ ctxs' = ctxs)]_vars

\* C37: dup has copied two elements into its local array, addressed by an
\* index op
C37_Indexed == /\ phase = "running" /\ node.fam = "copy" /\ node.sub = "index" /\ node.a = 2 /\ vsel = [unit |-> "dup", block |-> 1] /\ Top.pc = 2
  /\ mem[Reg(3).v] = IntV(7) /\ mem[Reg(3).v + SIZEOF_VALUE] = IntV(9)

\* ------------------------------------------------------------------ C38
\* every activation below the root has the flags of the one that started
\* it, and bounds
DescentFlags == \A i \in 2..Len(stack) : stack[i].flags = stack[i - 1].flags \cup {"bounds"}

\* a bounds op of a callee or of a parent context is about to meet a value
\* outside its range
NestedViolation == BoundsOp /\ OutOfBounds /\ Len(stack) > 1

\* the step reports the violation and counts it
Reported == errors' = errors + 1 /\ Cardinality(NewErrors) = 1 /\ stack'[Len(stack)].failed

\* C38: every nested callee evaluation and every lazily built parent
\* context evaluation runs with exactly the caller's flags plus bounds, so a
\* static bounds violation inside one is always reported and counted, also
\* when the flags passed to eval lack bounds.
C38_Descent == [](phase = "running" => DescentFlags) /\ [][NestedViolation => Reported]_vars

\* C38: chke(5), evaluated with flags that lack bounds, has ended the
\* process in its bounds check; nothing was counted
C38_Witness == /\ phase = "fatal" /\ node.fam = "call" /\ node.sub = "chke" /\ node.a = 5 /\ "bounds" \notin flags0
  /\ Len(stack) = 2 /\ "bounds" \in Top.flags /\ errors = pre.errors /\ ~Top.failed

\* C38, the flags alone
C38_Flags == phase = "running" => DescentFlags

\* C38 for the array sub-kinds
C38_ArrayKinds == [][(NestedViolation /\ CurOp.sub \in {"array_to", "array_downto"}) => Reported]_vars

\* C38: chk(5), evaluated with flags that lack bounds, has reported and
\* counted its violation
C38_CalleeReported == /\ phase = "returned" /\ node.fam = "call" /\ node.sub = "chk" /\ node.a = 5 /\ flags0 = {"fcall"}
  /\ errors = pre.errors + 1 /\ Cardinality(BoundsErrors(diags)) = 1

\* C38: ... and so has the scope of useb, built when useb reads its variable
C38_ParentReported == /\ phase = "returned" /\ node.fam = "call" /\ node.sub = "useb" /\ flags0 = {"fcall"}
  /\ errors = pre.errors + 1 /\ Cardinality(BoundsErrors(diags)) = 1

\* ------------------------------------------------------------------ C39
\* the activation on top, of the root or of a callee, has finished, not
\* failed
Finished == phase = "running" /\ stack # <<>> /\ Top.kind \in {"root", "callee"} /\ FrameDone(Top) /\ ~Top.failed

\* C39: whenever a root frame or a callee frame finishes with failed unset
\* its result index names a register: the frame ended at a return op that
\* carries an argument, and the asserts on the result in eval_op_fcall and
\* eval do not fail.
C39_Result == [](Finished => (Top.result # NO_RESULT /\ ~Top.run)) /\ [][Finished => phase' # "abort"]_vars

\* C39: mark(5) has called the procedure stamp, whose return op has no
\* argument; the assert on the result of the callee has ended the process
C39_Witness == /\ phase = "abort" /\ node.fam = "call" /\ node.sub = "mark" /\ node.a = 5 /\ Len(stack) = 3
  /\ Top.kind = "callee" /\ vsel.unit = "mark" /\ ~Top.run /\ ~Top.failed /\ Top.result = NO_RESULT

\* C39 for the frames whose last op was a return op with an argument
C39_ReturnArg == []((Finished /\ ~Top.run /\ Len(UnitOf(vsel.unit).blocks[vsel.block + 1][Top.pc + 1].args) > 0) => Top.result # NO_RESULT)
  /\ [][(Finished /\ Top.result # NO_RESULT) => phase' # "abort"]_vars

\* C39: a callee has returned a register and the caller is about to take it
C39_Returned == Finished /\ Top.kind = "callee" /\ ~Top.run /\ Top.result # NO_RESULT /\ ctxs[Top.ctx].regs[Top.result] = IntV(6)

====
